---- MODULE Spec2Model ----
(***************************************************************************)
(* Model of the FortiGate <-> NetBox VLAN reconciliation program:          *)
(*   - app/vlan_validator.py : VLAN normalizer, NetBox extraction, diff    *)
(*   - app/netbox_client.py  : VLAN resolution and interface PATCH         *)
(*   - app/cache_manager.py  : pickle-file cache (get / set / delete)      *)
(*   - app/sync_switches.py  : run_sync, the orchestrator and kill-switch  *)
(*                                                                         *)
(* Python strings are sequences of one-character strings, so that strip(), *)
(* lower() and the regular expressions are computed and not assumed.       *)
(* Optional[int] is a sequence of length 0 (None) or 1.                    *)
(***************************************************************************)
EXTENDS Integers, Sequences, FiniteSets, TLC

(***************************************************************************)
(* Characters and strings                                                  *)
(***************************************************************************)
Digit == {"0", "1", "2", "3", "4", "5", "6", "7", "8", "9"}

Whitespace == {" "}

DigitVal(c) ==
  CASE c = "0" -> 0 [] c = "1" -> 1 [] c = "2" -> 2 [] c = "3" -> 3
    [] c = "4" -> 4 [] c = "5" -> 5 [] c = "6" -> 6 [] c = "7" -> 7
    [] c = "8" -> 8 [] c = "9" -> 9

\* str.lower() on one character
LowerChar(c) ==
  CASE c = "A" -> "a" [] c = "C" -> "c" [] c = "E" -> "e" [] c = "G" -> "g"
    [] c = "L" -> "l" [] c = "N" -> "n" [] c = "O" -> "o" [] c = "P" -> "p"
    [] c = "R" -> "r" [] c = "S" -> "s" [] c = "T" -> "t" [] c = "V" -> "v"
    [] c = "D" -> "d" [] c = "W" -> "w"
    [] OTHER -> c

\* code point of a character (ASCII), as Python compares strings
Ord(c) ==
  CASE c = " " -> 32 [] c = "(" -> 40 [] c = ")" -> 41 [] c = "*" -> 42
    [] c = "-" -> 45 [] c = "/" -> 47
    [] c \in Digit -> 48 + DigitVal(c)
    [] c = "A" -> 65 [] c = "C" -> 67 [] c = "D" -> 68 [] c = "E" -> 69
    [] c = "G" -> 71 [] c = "L" -> 76 [] c = "N" -> 78 [] c = "O" -> 79
    [] c = "P" -> 80 [] c = "R" -> 82 [] c = "S" -> 83 [] c = "T" -> 84
    [] c = "V" -> 86 [] c = "W" -> 87 [] c = "_" -> 95
    [] c = "a" -> 97 [] c = "c" -> 99 [] c = "d" -> 100 [] c = "e" -> 101
    [] c = "f" -> 102 [] c = "g" -> 103 [] c = "l" -> 108 [] c = "n" -> 110
    [] c = "o" -> 111 [] c = "p" -> 112 [] c = "r" -> 114 [] c = "s" -> 115
    [] c = "t" -> 116 [] c = "u" -> 117 [] c = "v" -> 118 [] c = "w" -> 119
    [] OTHER -> 127

Drop(s, n) == SubSeq(s, n + 1, Len(s))

\* str.lower()
Lower(s) == [i \in 1..Len(s) |-> LowerChar(s[i])]

RECURSIVE LStrip(_)
LStrip(s) == IF s # <<>> /\ s[1] \in Whitespace THEN LStrip(Tail(s)) ELSE s

RECURSIVE RStrip(_)
RStrip(s) ==
  IF s # <<>> /\ s[Len(s)] \in Whitespace THEN RStrip(SubSeq(s, 1, Len(s) - 1)) ELSE s

\* str.strip()
Strip(s) == RStrip(LStrip(s))

IsDigits(s) == Len(s) >= 1 /\ \A i \in 1..Len(s) : s[i] \in Digit

\* int() of a digit string
RECURSIVE DigitsToInt(_)
DigitsToInt(s) ==
  IF s = <<>> THEN 0
  ELSE 10 * DigitsToInt(SubSeq(s, 1, Len(s) - 1)) + DigitVal(s[Len(s)])

\* Python's < on strings: lexicographic by code point, a proper prefix is smaller
RECURSIVE StrLess(_, _)
StrLess(a, b) ==
  IF b = <<>> THEN FALSE
  ELSE IF a = <<>> THEN TRUE
  ELSE IF Ord(a[1]) # Ord(b[1]) THEN Ord(a[1]) < Ord(b[1])
  ELSE StrLess(Tail(a), Tail(b))

(***************************************************************************)
(* Python values: None, int or str (the raw VLAN references)               *)
(***************************************************************************)
PyNone == [kind |-> "none", int |-> 0, str |-> <<>>]

PyInt(n) == [kind |-> "int", int |-> n, str |-> <<>>]

PyStr(s) == [kind |-> "str", int |-> 0, str |-> s]

\* truthiness, as used by `a or b`
Truthy(v) ==
  CASE v.kind = "none" -> FALSE
    [] v.kind = "int" -> v.int # 0
    [] v.kind = "str" -> v.str # <<>>

PyOr(a, b) == IF Truthy(a) THEN a ELSE b

None == <<>>

Some(n) == <<n>>

(***************************************************************************)
(* vlan_validator.py                                                       *)
(***************************************************************************)
\* _normalize_port_name with a defect: the name is not lower-cased
_normalize_port_name_case_sensitive(name) == Strip(name)

\* _normalize_port_name: name.strip().lower()
_normalize_port_name(name) == Lower(Strip(name))

\* length of the maximal run of digits at the end of s
RECURSIVE TrailingDigits(_)
TrailingDigits(s) ==
  IF s # <<>> /\ s[Len(s)] \in Digit
  THEN 1 + TrailingDigits(SubSeq(s, 1, Len(s) - 1)) ELSE 0

\* _port_sort_key with a defect: the digits are not split off, the key is the name
_port_sort_key_lexical(name) == [prefix |-> Lower(Strip(name)), num |-> 0]

\* _port_sort_key: re.match(r"^(.*?)(\d+)$", s) -> (prefix, int(digits)), else (s, 0)
_port_sort_key(name) ==
  LET s == Lower(Strip(name))
      k == TrailingDigits(s)
  IN IF k > 0
     THEN [prefix |-> SubSeq(s, 1, Len(s) - k), num |-> DigitsToInt(Drop(s, Len(s) - k))]
     ELSE [prefix |-> s, num |-> 0]

\* tuple comparison of two sort keys
KeyLess(a, b) ==
  \/ StrLess(a.prefix, b.prefix)
  \/ a.prefix = b.prefix /\ a.num < b.num

\* HasVlanPrefix with a defect: the prefix is matched without re.IGNORECASE
HasVlanPrefixCaseSensitive(s) == Len(s) >= 4 /\ SubSeq(s, 1, 4) = <<"v", "l", "a", "n">>

\* the optional, case-insensitive prefix (?:vlan[- ]?)? : the possible remainders
HasVlanPrefix(s) == Len(s) >= 4 /\ Lower(SubSeq(s, 1, 4)) = <<"v", "l", "a", "n">>

AfterPrefix(s) ==
  {s} \cup (IF HasVlanPrefix(s)
            THEN {Drop(s, 4)}
                 \cup (IF Len(s) >= 5 /\ s[5] \in {"-", " "} THEN {Drop(s, 5)} ELSE {})
            ELSE {})

\* length of the maximal run of digits at the start of s
RECURSIVE LeadingDigits(_)
LeadingDigits(s) ==
  IF s # <<>> /\ s[1] \in Digit THEN 1 + LeadingDigits(Tail(s)) ELSE 0

\* r matches (\d+)\s*\(\d+\)$
MatchesDisplay(r) ==
  LET k == LeadingDigits(r)
      t == LStrip(Drop(r, k))
  IN /\ k >= 1
     /\ Len(t) >= 3
     /\ t[1] = "("
     /\ t[Len(t)] = ")"
     /\ IsDigits(SubSeq(t, 2, Len(t) - 1))

\* _extract_vlan_vid with a defect: only strings are parsed, an int gives None
_extract_vlan_vid_of_strings(value) ==
  IF value.kind # "str" THEN None
  ELSE LET s == Strip(value.str)
           plain == {r \in AfterPrefix(s) : IsDigits(r)}
           disp == {r \in AfterPrefix(s) : MatchesDisplay(r)}
       IN IF s = <<>> THEN None
          ELSE IF plain # {} THEN Some(DigitsToInt(CHOOSE r \in plain : TRUE))
          ELSE IF disp # {}
               THEN LET r == CHOOSE r \in disp : TRUE
                    IN Some(DigitsToInt(SubSeq(r, 1, LeadingDigits(r))))
          ELSE None

\* _extract_vlan_vid
_extract_vlan_vid(value) ==
  IF value.kind = "none" THEN None
  ELSE IF value.kind = "int" THEN Some(value.int)
  ELSE LET s == Strip(value.str)
           plain == {r \in AfterPrefix(s) : IsDigits(r)}
           disp == {r \in AfterPrefix(s) : MatchesDisplay(r)}
       IN IF s = <<>> THEN None
          ELSE IF plain # {} THEN Some(DigitsToInt(CHOOSE r \in plain : TRUE))
          ELSE IF disp # {}
               THEN LET r == CHOOSE r \in disp : TRUE
                    IN Some(DigitsToInt(SubSeq(r, 1, LeadingDigits(r))))
          ELSE None

\* sorted(set_of_ints)
RECURSIVE SortInts(_)
SortInts(S) ==
  IF S = {} THEN <<>>
  ELSE LET m == CHOOSE x \in S : \A y \in S : x <= y
       IN <<m>> \o SortInts(S \ {m})

\* sorted(list_of_ints): duplicates are kept
RECURSIVE SortedList(_)
SortedList(q) ==
  IF q = <<>> THEN <<>>
  ELSE LET i == CHOOSE i \in 1..Len(q) : \A j \in 1..Len(q) : q[i] <= q[j]
       IN <<q[i]>> \o SortedList(SubSeq(q, 1, i - 1) \o SubSeq(q, i + 1, Len(q)))

\* _extract_netbox_mode with a defect: the mode value is taken as it is spelled
_extract_netbox_mode_verbatim(iface) ==
  IF iface.mode.kind = "str" /\ iface.mode.str # <<>> THEN iface.mode.str ELSE <<>>

\* _extract_netbox_mode: the interface's mode value, stripped and lower-cased, or None
\* (None is the empty string here: both are falsy in `mode or "unknown"`)
_extract_netbox_mode(iface) ==
  IF iface.mode.kind = "str" /\ iface.mode.str # <<>>
  THEN Lower(Strip(iface.mode.str))
  ELSE <<>>

S_access == <<"a", "c", "c", "e", "s", "s">>

S_tagged == <<"t", "a", "g", "g", "e", "d">>

S_tagged_all == <<"t", "a", "g", "g", "e", "d", "-", "a", "l", "l">>

S_unknown == <<"u", "n", "k", "n", "o", "w", "n">>

S_star == <<"*">>

\* vid of one NetBox VLAN reference: v.get("vid") if it is an int,
\* else _extract_vlan_vid(v.get("name") or v.get("display"))
NetboxVlanVid(v) ==
  IF v.vid.kind = "int" THEN Some(v.vid.int)
  ELSE _extract_vlan_vid(PyOr(v.name, v.display))

\* one iteration of the loop of _extract_netbox_vlan_info over `interfaces`
NetboxInfoStep(mapping, iface) ==
  LET raw_name == iface.name
      key == _normalize_port_name(raw_name)
      mode == _extract_netbox_mode(iface)
      native_vid == IF iface.untagged_vlan = <<>> THEN None
                    ELSE NetboxVlanVid(iface.untagged_vlan[1])
      tagged_set == UNION {{x[1] : x \in {NetboxVlanVid(iface.tagged_vlans[i])} \ {None}}
                             : i \in 1..Len(iface.tagged_vlans)}
      tagged_list == IF mode = S_tagged_all THEN [all |-> TRUE, vids |-> <<>>]
                     ELSE IF mode = S_access THEN [all |-> FALSE, vids |-> <<>>]
                     ELSE [all |-> FALSE, vids |-> SortInts(tagged_set)]
      entry == [id |-> iface.id,
                name |-> raw_name,
                native_vlan_vid |-> native_vid,
                tagged_vlan_vids |-> tagged_list,
                mode |-> IF mode = <<>> THEN S_unknown ELSE mode]
  IN IF raw_name = <<>> THEN mapping
     ELSE IF key \in DOMAIN mapping /\ mapping[key].name # raw_name THEN mapping
     ELSE [k \in DOMAIN mapping \cup {key} |-> IF k = key THEN entry ELSE mapping[k]]

\* _extract_netbox_vlan_info: normalized port name -> entry
RECURSIVE _extract_netbox_vlan_info(_)
_extract_netbox_vlan_info(interfaces) ==
  IF interfaces = <<>> THEN <<>>
  ELSE NetboxInfoStep(_extract_netbox_vlan_info(SubSeq(interfaces, 1, Len(interfaces) - 1)),
                      interfaces[Len(interfaces)])

\* sorted(switch.ports.keys(), key=_port_sort_key): stable, ties keep dict order
RECURSIVE SortPorts(_)
SortPorts(ports) ==
  IF ports = <<>> THEN <<>>
  ELSE LET i == CHOOSE i \in 1..Len(ports) :
                  /\ \A j \in 1..Len(ports) :
                       ~KeyLess(_port_sort_key(ports[j].name), _port_sort_key(ports[i].name))
                  /\ \A j \in 1..(i - 1) :
                       KeyLess(_port_sort_key(ports[i].name), _port_sort_key(ports[j].name))
       IN <<ports[i]>> \o SortPorts(SubSeq(ports, 1, i - 1) \o SubSeq(ports, i + 1, Len(ports)))

\* the switch side of one port, as validate_switch_vlans computes it
FgNative(fg_port) == _extract_vlan_vid(fg_port.native_vlan)

\* FgTagged with a defect: the vids as listed, neither sorted nor deduplicated
FgTaggedAsListed(fg_port) ==
  LET vids == [i \in 1..Len(fg_port.allowed_vlans) |-> _extract_vlan_vid(fg_port.allowed_vlans[i])]
      kept == SelectSeq(vids, LAMBDA x : x # None)
  IN [i \in 1..Len(kept) |-> kept[i][1]]

FgTagged(fg_port) ==
  SortInts(UNION {{x[1] : x \in {_extract_vlan_vid(fg_port.allowed_vlans[i])} \ {None}}
                    : i \in 1..Len(fg_port.allowed_vlans)})

\* FgIsAll with a defect: "*" is looked for among the extracted vids
FgIsAllInVids(fg_port) == \E i \in 1..Len(FgTagged(fg_port)) : FgTagged(fg_port)[i] = -1

FgIsAll(fg_port) == \E i \in 1..Len(fg_port.allowed_vlans) : fg_port.allowed_vlans[i] = PyStr(S_star)

\* desired state of a mismatch found in the tagged-all branch
TaggedAllDesired(fg_port) ==
  [mode |-> "tagged", native |-> FgNative(fg_port), tagged |-> <<>>]

\* desired state of a mismatch found in the explicit branch
ExplicitDesired(fg_port) ==
  [mode |-> IF FgTagged(fg_port) # <<>> THEN "tagged" ELSE "access",
   native |-> FgNative(fg_port),
   tagged |-> FgTagged(fg_port)]

MakeMismatch(switch, fg_port, nb_port, desired) ==
  [switch |-> switch.name,
   port |-> fg_port.name,
   netbox_interface_id |-> nb_port.id,
   netbox_interface_name |-> nb_port.name,
   desired_mode |-> desired.mode,
   desired_native_vid |-> desired.native,
   desired_tagged_vids |-> desired.tagged]

\* the body of the loop of validate_switch_vlans for one port: the mismatches it appends
ValidatePort(switch, fg_port, nb_map) ==
  LET key == _normalize_port_name(fg_port.name)
  IN IF key \notin DOMAIN nb_map THEN <<>>
     ELSE LET nb_port == nb_map[key]
              nb_native == nb_port.native_vlan_vid
              nb_tagged == nb_port.tagged_vlan_vids
              fg_native == FgNative(fg_port)
              fg_tagged == FgTagged(fg_port)
          IN IF FgIsAll(fg_port) \/ nb_tagged.all
             THEN IF fg_native # nb_native
                  THEN <<MakeMismatch(switch, fg_port, nb_port, TaggedAllDesired(fg_port))>>
                  ELSE <<>>
             ELSE IF fg_native # nb_native \/ fg_tagged # nb_tagged.vids
                  THEN <<MakeMismatch(switch, fg_port, nb_port, ExplicitDesired(fg_port))>>
                  ELSE <<>>

RECURSIVE ValidatePorts(_, _, _)
ValidatePorts(switch, ports, nb_map) ==
  IF ports = <<>> THEN <<>>
  ELSE ValidatePort(switch, ports[1], nb_map) \o ValidatePorts(switch, Tail(ports), nb_map)

\* validate_switch_vlans with a defect: a port missing from the inventory ends the loop
validate_switch_vlans_until_missing(switch, netbox_interfaces) ==
  LET sorted == SortPorts(switch.ports)
      nb_map == _extract_netbox_vlan_info(netbox_interfaces)
      missing == {i \in 1..Len(sorted) : _normalize_port_name(sorted[i].name) \notin DOMAIN nb_map}
      stop == IF missing = {} THEN Len(sorted) + 1
              ELSE CHOOSE i \in missing : \A j \in missing : i <= j
  IN ValidatePorts(switch, SubSeq(sorted, 1, stop - 1), nb_map)

\* validate_switch_vlans
validate_switch_vlans(switch, netbox_interfaces) ==
  ValidatePorts(switch, SortPorts(switch.ports), _extract_netbox_vlan_info(netbox_interfaces))

(***************************************************************************)
(* cache_manager.py: the cache directory is a function from the keys that  *)
(* have a file to the pickled value                                        *)
(***************************************************************************)
IfacesKey(device_id) == [kind |-> "netbox_device_interfaces", n |-> device_id]

VlanKey(vid) == [kind |-> "netbox_vlan_id_vid", n |-> vid]

\* CacheGet with a defect: the file is read whatever use_cache says
CacheGetIgnoresFlag(files, use_cache, key) ==
  IF key \notin DOMAIN files THEN <<>>
  ELSE <<files[key]>>

\* CacheManager.get: None (<<>>) when use_cache is off or the file is missing
CacheGet(files, use_cache, key) ==
  IF ~use_cache THEN <<>>
  ELSE IF key \notin DOMAIN files THEN <<>>
  ELSE <<files[key]>>

\* CacheManager.set: always writes the file
CacheSet(files, key, data) ==
  [k \in DOMAIN files \cup {key} |-> IF k = key THEN data ELSE files[k]]

\* CacheDelete with a defect: the file is left in place
CacheDeleteKeepsFile(files, key) == files

\* CacheManager.delete: removes the file if there is one
CacheDelete(files, key) == [k \in DOMAIN files \ {key} |-> files[k]]

\* what CacheManager.delete returns: True if the file existed
CacheDeleteReturn(files, key) == key \in DOMAIN files

(***************************************************************************)
(* netbox_client.py.  The NetBox server is: devices by name, interface     *)
(* records by id, VLAN objects by vid.  `net` is what the HTTP layer does  *)
(* in this call: "ok", "get_error" (a GET raises) or "patch_error".        *)
(***************************************************************************)
VlanObj(vid) == [vid |-> PyInt(vid), name |-> PyNone, display |-> PyNone]

\* the interface records of a device, as the API lists them (by id)
RECURSIVE IfaceList(_, _, _)
IfaceList(ifaces, ids, device_id) ==
  IF ids = {} THEN <<>>
  ELSE LET i == CHOOSE x \in ids : \A y \in ids : x <= y
       IN (IF ifaces[i].device = device_id THEN <<ifaces[i].rec>> ELSE <<>>)
          \o IfaceList(ifaces, ids \ {i}, device_id)

\* get_vlan_id_by_vid with a defect: of several VLANs with the vid the first is taken
get_vlan_id_by_vid_first_match(vlans, files, use_cache, net, vid) ==
  LET cached == CacheGet(files, use_cache, VlanKey(vid))
      results == IF vid \in DOMAIN vlans THEN vlans[vid] ELSE <<>>
  IN IF vid <= 0 THEN [ok |-> FALSE, id |-> 0, files |-> files]
     ELSE IF cached # <<>> THEN [ok |-> TRUE, id |-> cached[1], files |-> files]
     ELSE IF net = "get_error" THEN [ok |-> FALSE, id |-> 0, files |-> files]
     ELSE IF Len(results) = 0 THEN [ok |-> FALSE, id |-> 0, files |-> files]
     ELSE [ok |-> TRUE, id |-> results[1],
           files |-> CacheSet(files, VlanKey(vid), results[1])]

\* NetBoxClient.get_vlan_id_by_vid: [ok, id, files]
get_vlan_id_by_vid(vlans, files, use_cache, net, vid) ==
  LET cached == CacheGet(files, use_cache, VlanKey(vid))
      results == IF vid \in DOMAIN vlans THEN vlans[vid] ELSE <<>>
  IN IF vid <= 0 THEN [ok |-> FALSE, id |-> 0, files |-> files]
     ELSE IF cached # <<>> THEN [ok |-> TRUE, id |-> cached[1], files |-> files]
     ELSE IF net = "get_error" THEN [ok |-> FALSE, id |-> 0, files |-> files]
     ELSE IF Len(results) = 0 THEN [ok |-> FALSE, id |-> 0, files |-> files]
     ELSE IF Len(results) > 1 THEN [ok |-> FALSE, id |-> 0, files |-> files]
     ELSE [ok |-> TRUE, id |-> results[1],
           files |-> CacheSet(files, VlanKey(vid), results[1])]

\* the loop of update_interface_vlan_config over tagged_vlan_vids: [ok, ids, files]
RECURSIVE ResolveAll(_, _, _, _, _)
ResolveAll(vlans, files, use_cache, net, vids) ==
  IF vids = <<>> THEN [ok |-> TRUE, ids |-> <<>>, files |-> files]
  ELSE LET r == get_vlan_id_by_vid(vlans, files, use_cache, net, vids[1])
       IN IF ~r.ok THEN [ok |-> FALSE, ids |-> <<>>, files |-> r.files]
          ELSE LET rest == ResolveAll(vlans, r.files, use_cache, net, Tail(vids))
               IN [ok |-> rest.ok, ids |-> <<r.id>> \o rest.ids, files |-> rest.files]

\* vid of a VLAN object id on the server
VidOfObject(vlans, id) ==
  CHOOSE vid \in DOMAIN vlans : \E i \in 1..Len(vlans[vid]) : vlans[vid][i] = id

\* the payload NetBoxClient.update_interface_vlan_config builds
PatchPayload(mode_value, untagged_vlan_id, tagged_vlan_ids) ==
  [mode |-> mode_value,
   untagged_vlan |-> untagged_vlan_id,
   tagged_vlans |-> IF mode_value = "tagged" THEN tagged_vlan_ids ELSE <<>>]

ModeString(m) == IF m = "tagged" THEN S_tagged ELSE S_access

\* the interface record after the server applied a PATCH payload
Patched(vlans, rec, payload) ==
  [rec EXCEPT !.mode = PyStr(ModeString(payload.mode)),
              !.untagged_vlan = IF payload.untagged_vlan = <<>> THEN <<>>
                                ELSE <<VlanObj(VidOfObject(vlans, payload.untagged_vlan[1]))>>,
              !.tagged_vlans = [i \in 1..Len(payload.tagged_vlans) |->
                                  VlanObj(VidOfObject(vlans, payload.tagged_vlans[i]))]]

\* NetBoxClient.update_interface_vlan_config: [ok, patched, payload, files]
\* ok = FALSE is a raised exception; patched tells whether the PATCH was sent
update_interface_vlan_config(vlans, files, use_cache, net, mode, native_vlan_vid, tagged_vlan_vids) ==
  LET n == IF native_vlan_vid = None
           THEN [ok |-> TRUE, id |-> 0, files |-> files]
           ELSE get_vlan_id_by_vid(vlans, files, use_cache, net, native_vlan_vid[1])
      t == ResolveAll(vlans, n.files, use_cache, net, tagged_vlan_vids)
      payload == PatchPayload(mode, IF native_vlan_vid = None THEN None ELSE Some(n.id), t.ids)
      nopayload == PatchPayload(mode, None, <<>>)
  IN IF mode \notin {"access", "tagged"}
     THEN [ok |-> FALSE, patched |-> FALSE, payload |-> nopayload, files |-> files]
     ELSE IF ~n.ok
     THEN [ok |-> FALSE, patched |-> FALSE, payload |-> nopayload, files |-> n.files]
     ELSE IF ~t.ok
     THEN [ok |-> FALSE, patched |-> FALSE, payload |-> nopayload, files |-> t.files]
     ELSE IF net = "patch_error"
     THEN [ok |-> FALSE, patched |-> TRUE, payload |-> payload, files |-> t.files]
     ELSE [ok |-> TRUE, patched |-> TRUE, payload |-> payload, files |-> t.files]

(***************************************************************************)
(* Bounds and the finite pools the inputs are drawn from                   *)
(***************************************************************************)
MaxDevices == 2

MaxSwitches == 2

MaxBudget == 2

P_port(n) == <<"p", "o", "r", "t">> \o n

R_vlan(n) == PyStr(<<"v", "l", "a", "n">> \o n)

R_VLAN(n) == PyStr(<<"V", "L", "A", "N", "-">> \o n)

\* SW1 as one FortiGate reports it: three ports, dict order port10, port2, port1
SwA ==
  [name |-> "SW1",
   ports |-> <<[name |-> P_port(<<"1", "0">>), native_vlan |-> R_vlan(<<"1", "0">>),
                allowed_vlans |-> <<R_vlan(<<"2", "0">>)>>],
               [name |-> P_port(<<"2">>), native_vlan |-> R_VLAN(<<"2", "0">>),
                allowed_vlans |-> <<>>],
               [name |-> P_port(<<"1">>), native_vlan |-> R_vlan(<<"1", "0">>),
                allowed_vlans |-> <<PyStr(S_star)>>]>>]

\* SW1 as another FortiGate reports it: one port
SwB ==
  [name |-> "SW1",
   ports |-> <<[name |-> P_port(<<"1">>), native_vlan |-> R_vlan(<<"5", "0">>),
                allowed_vlans |-> <<R_vlan(<<"2", "0">>)>>]>>]

SwC ==
  [name |-> "SW2",
   ports |-> <<[name |-> P_port(<<"1">>), native_vlan |-> R_vlan(<<"1", "0">>),
                allowed_vlans |-> <<R_vlan(<<"5", "0">>)>>]>>]

SwitchPool == {SwA, SwB, SwC}

SwitchLists == UNION {[1..n -> SwitchPool] : n \in 0..MaxSwitches}

Iface(id, name, mode, native, tagged) ==
  [id |-> id, name |-> name, mode |-> mode,
   untagged_vlan |-> native,
   tagged_vlans |-> tagged]

\* interface records on the server: id -> [device, rec]
IfacesFull ==
  (11 :> [device |-> 1, rec |-> Iface(Some(11), P_port(<<"1">>), PyStr(S_tagged_all),
                                       <<VlanObj(20)>>, <<>>)])
  @@ (12 :> [device |-> 1, rec |-> Iface(Some(12), <<"P", "o", "r", "t", "2">>, PyStr(S_access),
                                          <<VlanObj(10)>>, <<>>)])
  @@ (13 :> [device |-> 1, rec |-> Iface(Some(13), P_port(<<"1", "0">>), PyStr(S_tagged),
                                          <<VlanObj(10)>>, <<VlanObj(50)>>)])
  @@ (21 :> [device |-> 2, rec |-> Iface(Some(21), P_port(<<"1">>), PyStr(S_access),
                                          <<VlanObj(20)>>, <<>>)])

\* the same, but the record of port2 carries no id and port10 already matches SwA
IfacesNoId ==
  [IfacesFull EXCEPT ![12].rec.id = None,
                     ![13].rec.tagged_vlans = <<VlanObj(20)>>]

\* IfacesFull, but the record of port1 carries no id
IfacesNoFirstId == [IfacesFull EXCEPT ![11].rec.id = None]

IfaceTables == {IfacesFull, IfacesNoId, IfacesNoFirstId}

\* devices by name: the results of GET /api/dcim/devices/?name=
DeviceTables ==
  {[n \in {"SW1", "SW2"} |-> IF n = "SW1" THEN <<1>> ELSE <<2>>],
   [n \in {"SW1", "SW2"} |-> IF n = "SW1" THEN <<>> ELSE <<2>>]}

\* VLAN objects by vid: the results of GET /api/ipam/vlans/?vid=
VlanTables ==
  {(10 :> <<101>>) @@ (20 :> <<102>>) @@ (50 :> <<105>>),
   (10 :> <<101>>) @@ (20 :> <<>>) @@ (50 :> <<105>>)}

\* only_switch_name: None, "" (TEST_SWITCH set but empty) or a name
OnlyNames == {<<>>, <<"">>, <<"SW1">>}

Budgets == (-1)..MaxBudget

(***************************************************************************)
(* sync_switches.py: run_sync                                              *)
(***************************************************************************)
VARIABLES
  only_switch_name,    \* the keyword argument of run_sync
  max_netbox_updates,  \* settings.max_netbox_updates
  use_cached_data,     \* settings.use_cached_data
  n_devices,           \* len(settings.fortigate_devices)
  nb_devices,          \* NetBox: devices by name
  nb_ifaces,           \* NetBox: interface records by id
  nb_vlans,            \* NetBox: VLAN objects by vid
  files,               \* the cache directory
  pc,                  \* where run_sync is: "fg", "sw", "ifaces", "apply", "done"
  fg,                  \* index of the FortiGate being processed
  switches,            \* the (filtered) switches of that FortiGate
  sw_i,                \* index of the switch being processed
  sw,                  \* the switch being processed (the loop variable)
  matched_any,
  device_id,
  interfaces,          \* what get_interfaces_for_device returned for this switch
  mismatches,
  m_i,                 \* index of the mismatch the write-back loop is at
  applied,
  outcome,             \* [kind: "running" | "returned" | "raised", code, at]
  log                  \* history: the collaborator calls made so far

\* the inputs and results of the reconciliation functions applied on their own
VARIABLES
  v_pc,                \* "off" | "input" | "normalized" | "validated"
  vlan_translations,   \* settings.vlan_translations: FortiGate name -> NetBox name
  v_value,             \* the raw VLAN reference given to _extract_vlan_vid
  v_vid,               \* what _extract_vlan_vid returned for it
  v_ports,             \* the ports of one switch as the FortiGate API reports them
  v_switch,            \* the Switch built from them
  v_interfaces,        \* the inventory interface records of the device
  v_mismatches,        \* what validate_switch_vlans returned
  u_call,              \* the arguments and environment of one update_interface_vlan_config
  u_result             \* what it did: [ok, patched, payload, files, rec]

\* one cache directory and the CacheManager objects opened on it, used on their own
VARIABLES
  c_use_cache,         \* CacheManager.use_cache of the current object
  c_files,             \* the cache directory
  c_hist               \* the calls made: [op, key, data, use_cache, ret, deleted]

\* one call of NetBoxClient._get
VARIABLES
  g_pc,                \* "off" | "request" | "sleep" | "done"
  g_max_retries,       \* the max_retries argument
  g_timeout,           \* the timeout argument
  g_attempt,           \* the loop variable of `for attempt in range(max_retries)`
  g_requests,          \* the requests sent: [timeout, outcome]
  g_waits,             \* the time.sleep calls made
  g_result             \* [kind: "none" | "json" | "raised" | "returned_none", err]

rvars ==
  <<only_switch_name, max_netbox_updates, use_cached_data, n_devices, nb_devices, nb_ifaces,
    nb_vlans, files, pc, fg, switches, sw_i, sw, matched_any, device_id, interfaces, mismatches,
    m_i, applied, outcome, log>>

vvars ==
  <<v_pc, vlan_translations, v_value, v_vid, v_ports, v_switch, v_interfaces, v_mismatches,
    u_call, u_result>>

cvars == <<c_use_cache, c_files, c_hist>>

gvars == <<g_pc, g_max_retries, g_timeout, g_attempt, g_requests, g_waits, g_result>>

vars == <<rvars, vvars, cvars, gvars>>

settings == <<only_switch_name, max_netbox_updates, use_cached_data, n_devices>>

server == <<nb_devices, nb_ifaces, nb_vlans>>

\* no update_interface_vlan_config call was made
NoCall ==
  [interface_id |-> None, mode |-> "", native_vlan_vid |-> None,
   tagged_vlan_vids |-> <<>>, net |-> "ok", use_cache |-> FALSE, files |-> <<>>]

NoResult ==
  [ok |-> FALSE, patched |-> FALSE, payload |-> PatchPayload("", None, <<>>), files |-> <<>>,
   rec |-> Iface(None, <<>>, PyNone, <<>>, <<>>)]

\* _get has not finished
NoResponse == [kind |-> "none", err |-> ""]

\* truthiness of only_switch_name
Filtered == only_switch_name # <<>> /\ only_switch_name[1] # ""

Ev(op, name, n) == [op |-> op, sw |-> name, n |-> n]

Running == [kind |-> "running", code |-> 0, at |-> 0]

Return(code, line) == [kind |-> "returned", code |-> code, at |-> line]

Raise(line) == [kind |-> "raised", code |-> 1, at |-> line]

NoSwitch == [name |-> "", ports |-> <<>>]

Init ==
  /\ only_switch_name \in OnlyNames
  /\ max_netbox_updates \in Budgets
  /\ use_cached_data \in BOOLEAN
  /\ n_devices \in 0..MaxDevices
  /\ nb_devices \in DeviceTables
  /\ nb_ifaces \in IfaceTables
  /\ nb_vlans \in VlanTables
  /\ files = <<>>
  /\ pc = "fg"
  /\ fg = 1
  /\ switches = <<>>
  /\ sw_i = 1
  /\ sw = NoSwitch
  /\ matched_any = FALSE
  /\ device_id = 0
  /\ interfaces = <<>>
  /\ mismatches = <<>>
  /\ m_i = 1
  /\ applied = 0
  /\ outcome = Running
  /\ log = <<>>
  /\ v_pc = "off"
  /\ vlan_translations = <<>>
  /\ v_value = PyNone
  /\ v_vid = None
  /\ v_ports = <<>>
  /\ v_switch = NoSwitch
  /\ v_interfaces = <<>>
  /\ v_mismatches = <<>>
  /\ u_call = NoCall
  /\ u_result = NoResult
  /\ c_use_cache = FALSE
  /\ c_files = <<>>
  /\ c_hist = <<>>
  /\ g_pc = "off"
  /\ g_max_retries = 3
  /\ g_timeout = None
  /\ g_attempt = 0
  /\ g_requests = <<>>
  /\ g_waits = <<>>
  /\ g_result = NoResponse

\* `switches = [sw for sw in switches if sw.name == only_switch_name]`
FilterSwitches(list, name) == SelectSeq(list, LAMBDA x : x.name = name)

\* the control variables after the body of `for sw in switches` ends without a return
\* for switch number i of list: the next switch, or the next FortiGate
NextSwitch(list, i) ==
  IF i < Len(list)
  THEN /\ pc' = "sw"
       /\ sw_i' = i + 1
       /\ fg' = fg
       /\ switches' = list
  ELSE /\ pc' = "fg"
       /\ sw_i' = 1
       /\ fg' = fg + 1
       /\ switches' = list

Stop(o) ==
  /\ outcome' = o
  /\ pc' = "done"

\* lines 53-74: one iteration of `for fg in settings.fortigate_devices` up to the inner loop.
\* The FortiGate client is a collaborator: get_switches() raises or returns a list of switches.
FetchSwitches ==
  /\ pc = "fg"
  /\ fg <= n_devices
  /\ \/ \* client.get_switches() raises
        /\ Stop(Return(1, 71))
        /\ log' = Append(log, Ev("get_switches_failed", "", fg))
        /\ UNCHANGED <<fg, switches, sw_i>>
     \/ \E raw \in SwitchLists :
          LET list == IF Filtered THEN FilterSwitches(raw, only_switch_name[1]) ELSE raw
          IN /\ log' = Append(log, Ev("get_switches", "", fg))
             /\ outcome' = outcome
             /\ NextSwitch(list, 0)
  /\ UNCHANGED <<vvars, cvars, gvars>>
  /\ UNCHANGED <<settings, server, files, sw, matched_any, device_id, interfaces, mismatches,
                 m_i, applied>>

\* NotFound with a defect: "not found" also without a target filter
NotFoundUnfiltered == ~matched_any

\* line 178: `if only_switch_name and not matched_any`
NotFound == Filtered /\ ~matched_any

\* lines 178-183: after the loop over the FortiGates
Finish ==
  /\ pc = "fg"
  /\ fg > n_devices
  /\ IF NotFound THEN Stop(Return(1, 181)) ELSE Stop(Return(0, 183))
  /\ UNCHANGED <<vvars, cvars, gvars>>
  /\ UNCHANGED <<settings, server, files, fg, switches, sw_i, sw, matched_any, device_id,
                 interfaces, mismatches, m_i, applied, log>>

\* the HTTP layer in one call
NetOutcomes == {"ok", "get_error", "patch_error"}

\* NetBoxClient.get_device_by_name: [ok, results]
get_device_by_name(devices, net, name) ==
  IF net = "get_error" THEN [ok |-> FALSE, results |-> <<>>]
  ELSE [ok |-> TRUE, results |-> IF name \in DOMAIN devices THEN devices[name] ELSE <<>>]

\* MissingDeviceReturn with a defect: a missing device reported as success
MissingDeviceReturnSuccess == Return(0, 83)

\* lines 80-83: the device is missing in NetBox
MissingDeviceReturn == Return(1, 83)

\* lines 76-85: the head of one iteration of `for sw in switches`
LookupDevice ==
  /\ pc = "sw"
  /\ \E net \in {"ok", "get_error"} :
       LET s == switches[sw_i]
           r == get_device_by_name(nb_devices, net, s.name)
       IN /\ sw' = s
          /\ matched_any' = TRUE
          /\ IF ~r.ok
             THEN /\ Stop(Raise(79))
                  /\ log' = Append(log, Ev("get_device_failed", s.name, 0))
                  /\ device_id' = device_id
             ELSE IF r.results = <<>>
             THEN /\ Stop(MissingDeviceReturn)
                  /\ log' = Append(log, Ev("device_missing", s.name, 0))
                  /\ device_id' = device_id
             ELSE /\ pc' = "ifaces"
                  /\ outcome' = outcome
                  /\ log' = Append(log, Ev("get_device", s.name, r.results[1]))
                  /\ device_id' = r.results[1]
  /\ UNCHANGED <<vvars, cvars, gvars>>
  /\ UNCHANGED <<settings, server, files, fg, switches, sw_i, interfaces, mismatches, m_i,
                 applied>>

\* NetBoxClient.get_interfaces_for_device: [ok, cached, data, files]
get_interfaces_for_device(ifaces, cache, use_cache, net, dev) ==
  LET cached_data == CacheGet(cache, use_cache, IfacesKey(dev))
      fetched == IfaceList(ifaces, DOMAIN ifaces, dev)
  IN IF cached_data # <<>>
     THEN [ok |-> TRUE, cached |-> TRUE, data |-> cached_data[1], files |-> cache]
     ELSE IF net = "get_error"
     THEN [ok |-> FALSE, cached |-> FALSE, data |-> <<>>, files |-> cache]
     ELSE [ok |-> TRUE, cached |-> FALSE, data |-> fetched,
           files |-> CacheSet(cache, IfacesKey(dev), fetched)]

\* int(getattr(settings, "max_netbox_updates", 1))
max_updates == max_netbox_updates

\* WriteBackEnabled with a defect: the single-target condition is dropped
WriteBackEnabledInFullRun(ms) == ms # <<>>

\* the guard of line 90: `if only_switch_name and mismatches`
WriteBackEnabled(ms) == Filtered /\ ms # <<>>

\* lines 86-101: fetch the interfaces, validate, decide whether to write back
FetchAndValidate ==
  /\ pc = "ifaces"
  /\ \E net \in {"ok", "get_error"} :
       LET r == get_interfaces_for_device(nb_ifaces, files, use_cached_data, net, device_id)
           ms == validate_switch_vlans(sw, r.data)
       IN IF ~r.ok
          THEN /\ Stop(Raise(86))
               /\ log' = Append(log, Ev("get_interfaces_failed", sw.name, device_id))
               /\ UNCHANGED <<files, fg, switches, sw_i, interfaces, mismatches, m_i, applied>>
          ELSE /\ files' = r.files
               /\ interfaces' = r.data
               /\ mismatches' = ms
               /\ log' = Append(log, Ev(IF r.cached THEN "interfaces_cached"
                                        ELSE "interfaces_fetched", sw.name, device_id))
               /\ IF WriteBackEnabled(ms)
                  THEN IF max_updates <= 0
                       THEN /\ Stop(Return(0, 99))
                            /\ UNCHANGED <<fg, switches, sw_i, m_i, applied>>
                       ELSE /\ pc' = "apply"
                            /\ m_i' = 1
                            /\ applied' = 0
                            /\ outcome' = outcome
                            /\ UNCHANGED <<fg, switches, sw_i>>
                  ELSE /\ NextSwitch(switches, sw_i)
                       /\ outcome' = outcome
                       /\ UNCHANGED <<m_i, applied>>
  /\ UNCHANGED <<vvars, cvars, gvars>>
  /\ UNCHANGED <<settings, server, sw, matched_any, device_id>>

\* lines 126-142: does the re-read interface show the desired state
VerifyOk(iface, m) ==
  LET updated_mode == IF iface.mode.kind = "str" THEN Lower(iface.mode.str)
                      ELSE <<"n", "o", "n", "e">>
      updated_native_vid == IF iface.untagged_vlan = <<>> THEN None
                            ELSE IF iface.untagged_vlan[1].vid.kind = "int"
                            THEN Some(iface.untagged_vlan[1].vid.int)
                            ELSE None
      tagged == SelectSeq(iface.tagged_vlans, LAMBDA v : v.vid.kind = "int")
      updated_tagged_vids == SortedList([i \in 1..Len(tagged) |-> tagged[i].vid.int])
  IN /\ updated_mode = ModeString(m.desired_mode)
     /\ updated_native_vid = m.desired_native_vid
     /\ updated_tagged_vids = SortedList(m.desired_tagged_vids)

\* NextMismatch with a defect: the iteration ends the loop over the mismatches
NextMismatchBreaks ==
  /\ m_i' = m_i
  /\ NextSwitch(switches, sw_i)

\* NextMismatch with a defect: the loop stays on the same mismatch
NextMismatchAgain ==
  /\ m_i' = m_i
  /\ UNCHANGED <<pc, fg, switches, sw_i>>

\* the control variables after one iteration of `for m in mismatches` that did not return
NextMismatch ==
  IF m_i < Len(mismatches)
  THEN /\ m_i' = m_i + 1
       /\ UNCHANGED <<pc, fg, switches, sw_i>>
  ELSE /\ m_i' = m_i
       /\ NextSwitch(switches, sw_i)

\* BudgetExhausted with a defect: stops one update too late
BudgetExhaustedLate(n) == n > max_updates

\* the kill-switch test of line 170
BudgetExhausted(n) == n >= max_updates

\* KillSwitchReturn with a defect: the kill-switch stop reported as a fatal error
KillSwitchReturnFatal == Return(1, 176)

\* lines 170-176: the kill-switch stop
KillSwitchReturn == Return(0, 176)

\* lines 102-176: one iteration of `for m in mismatches`
ApplyMismatch ==
  /\ pc = "apply"
  /\ \E net \in NetOutcomes, vnet \in {"ok", "get_error"}, stored \in BOOLEAN :
       LET m == mismatches[m_i]
           iface_id == m.netbox_interface_id
           r == update_interface_vlan_config(nb_vlans, files, use_cached_data, net,
                                             m.desired_mode, m.desired_native_vid,
                                             m.desired_tagged_vids)
           id == iface_id[1]
           after == IF stored THEN [nb_ifaces EXCEPT ![id].rec = Patched(nb_vlans, @, r.payload)]
                    ELSE nb_ifaces
           patch == IF r.patched THEN <<Ev("patch", sw.name, id)>> ELSE <<>>
       IN IF iface_id = None
          THEN \* line 104: not an int, skipped
               /\ net = "ok" /\ vnet = "ok" /\ stored
               /\ log' = Append(log, Ev("skip", sw.name, m_i))
               /\ NextMismatch
               /\ UNCHANGED <<nb_ifaces, files, applied, outcome>>
          ELSE IF ~r.ok
          THEN \* update_interface_vlan_config raises
               /\ vnet = "ok" /\ stored
               /\ Stop(Raise(113))
               /\ log' = log \o patch \o
                           <<Ev(IF r.patched THEN "patch_failed"
                                ELSE IF net = "get_error" THEN "resolve_error"
                                ELSE "resolve_failed", sw.name, id)>>
               /\ files' = r.files
               /\ UNCHANGED <<nb_ifaces, fg, switches, sw_i, m_i, applied>>
          ELSE IF vnet = "get_error"
          THEN \* get_interface raises
               /\ nb_ifaces' = after
               /\ files' = CacheDelete(r.files, IfacesKey(device_id))
               /\ Stop(Raise(125))
               /\ log' = log \o patch \o <<Ev("cache_delete", sw.name, device_id),
                                           Ev("get_interface_failed", sw.name, id)>>
               /\ UNCHANGED <<fg, switches, sw_i, m_i, applied>>
          ELSE /\ nb_ifaces' = after
               /\ files' = CacheDelete(r.files, IfacesKey(device_id))
               /\ log' = log \o patch \o
                           <<Ev("cache_delete", sw.name, device_id),
                             Ev("get_interface", sw.name, id),
                             Ev(IF VerifyOk(after[id].rec, m) THEN "verify_ok"
                                ELSE "verify_failed", sw.name, id)>>
               /\ applied' = applied + 1
               /\ IF BudgetExhausted(applied + 1)
                  THEN /\ Stop(KillSwitchReturn)
                       /\ UNCHANGED <<fg, switches, sw_i, m_i>>
                  ELSE /\ NextMismatch
                       /\ outcome' = outcome
  /\ UNCHANGED <<vvars, cvars, gvars>>
  /\ UNCHANGED <<settings, nb_devices, nb_vlans, sw, matched_any, device_id, interfaces,
                 mismatches>>

Next ==
  \/ FetchSwitches
  \/ Finish
  \/ LookupDevice
  \/ FetchAndValidate
  \/ ApplyMismatch

Spec == Init /\ [][Next]_vars

(***************************************************************************)
(* fortigate_client.py: the VLAN names of one port as get_switches stores  *)
(* them.  A port of the FortiGate API is [name, vlan, allowed]: 'port-name',*)
(* 'vlan' ('' when absent) and the 'vlan-name's of 'allowed-vlans'.         *)
(***************************************************************************)
S_vlan == <<"v", "l", "a", "n">>

S_VLAN_dash == <<"V", "L", "A", "N", "-">>

\* one VLAN name: vlan90 -> VLAN-90, any other name unchanged
FgVlanName(vlan_name) ==
  IF Len(vlan_name) >= 4 /\ SubSeq(vlan_name, 1, 4) = S_vlan /\ IsDigits(Drop(vlan_name, 4))
  THEN S_VLAN_dash \o Drop(vlan_name, 4)
  ELSE vlan_name

\* FortiGateClient._normalize_vlan_names for one port: the native VLAN is the 'vlan'
\* field, the allowed VLANs are the named entries of 'allowed-vlans', all of them
_normalize_vlan_names(port) ==
  LET named == SelectSeq(port.allowed, LAMBDA n : n # <<>>)
  IN [name |-> port.name,
      native_vlan |-> IF port.vlan # <<>> THEN PyStr(FgVlanName(port.vlan)) ELSE PyNone,
      allowed_vlans |-> [i \in 1..Len(named) |-> PyStr(FgVlanName(named[i]))]]

\* FortiGateClient.get_switches for one switch: ports without a name are skipped
SwitchOf(name, ports_raw) ==
  LET kept == SelectSeq(ports_raw, LAMBDA p : p.name # <<>>)
  IN [name |-> name, ports |-> [i \in 1..Len(kept) |-> _normalize_vlan_names(kept[i])]]

(***************************************************************************)
(* The normalizer and the reconciliation applied on their own: the inputs  *)
(* are drawn from the pools below                                          *)
(***************************************************************************)
MaxVid == 12

MaxPorts == 3

DigitChar(d) ==
  CASE d = 0 -> "0" [] d = 1 -> "1" [] d = 2 -> "2" [] d = 3 -> "3" [] d = 4 -> "4"
    [] d = 5 -> "5" [] d = 6 -> "6" [] d = 7 -> "7" [] d = 8 -> "8" [] d = 9 -> "9"

\* str(n) for n >= 0
RECURSIVE IntToDigits(_)
IntToDigits(n) ==
  IF n < 10 THEN <<DigitChar(n)>> ELSE IntToDigits(n \div 10) \o <<DigitChar(n % 10)>>

VlanWords == {S_vlan, <<"V", "L", "A", "N">>, <<"V", "l", "a", "n">>, <<"v", "L", "a", "N">>}

Separators == {<<>>, <<"-">>, <<" ">>}

\* the spellings of VLAN n the normalizer is written for: the integer, "n", "vlan<n>",
\* "VLAN-<n>", "vlan <n>" and the display form "VLAN-<n> (<n>)", in several letter cases
Spellings(n) ==
  LET d == IntToDigits(n)
  IN {PyInt(n), PyStr(d)}
     \cup {PyStr(w \o sep \o d) : w \in VlanWords, sep \in Separators}
     \cup {PyStr(w \o sep \o d \o <<" ", "(">> \o d \o <<")">>) : w \in VlanWords, sep \in Separators}

S_default == <<"_", "d", "e", "f", "a", "u", "l", "t">>

S_mgmt == <<"m", "g", "m", "t">>

\* other raw values: absent, empty, blank, negative, padded, zero-filled, and names
\* that are no VLAN spelling
OtherValues ==
  {PyNone, PyInt(-1), PyStr(<<>>), PyStr(<<" ">>), PyStr(S_default), PyStr(S_mgmt),
   PyStr(S_vlan), PyStr(S_VLAN_dash), PyStr(S_star),
   PyStr(<<" ", "1", "2", " ">>), PyStr(<<"v", "l", "a", "n", " ", "0", "7">>),
   PyStr(<<"V", "L", "A", "N", "-", "1", "2", "(", "3", ")">>),
   PyStr(<<"V", "L", "A", "N", "-", "-", "5">>), PyStr(<<"1", "2", "a">>),
   PyStr(<<"(", "1", "2", ")">>)}

RawValues == OtherValues \cup UNION {Spellings(n) : n \in 0..MaxVid}

\* settings.vlan_translations: empty, or two names translated to NetBox names
TranslationTables ==
  {<<>>,
   (S_default :> (S_VLAN_dash \o <<"1", "0">>)) @@ (S_mgmt :> (S_VLAN_dash \o <<"5", "0">>))}

FgPort(name, vlan, allowed) == [name |-> name, vlan |-> vlan, allowed |-> allowed]

N_vlan(n) == S_vlan \o n

\* a NetBox VLAN reference that carries a name and no vid
NamedVlan(name) == [vid |-> PyNone, name |-> PyStr(name), display |-> PyNone]

NativeNames ==
  {<<>>, N_vlan(<<"1", "0">>), S_VLAN_dash \o <<"2", "0">>, <<"1", "0">>, S_default}

AllowedLists ==
  {<<>>,
   <<N_vlan(<<"2", "0">>)>>,
   <<N_vlan(<<"2", "0">>), N_vlan(<<"5", "0">>)>>,
   <<N_vlan(<<"5", "0">>), N_vlan(<<"2", "0">>), N_vlan(<<"5", "0">>)>>,
   <<S_star>>,
   <<S_star, N_vlan(<<"2", "0">>)>>,
   <<N_vlan(<<"1", "0">>), N_vlan(<<"2", "0">>)>>}

InventoryModes ==
  {PyNone, PyStr(S_access), PyStr(S_tagged), PyStr(S_tagged_all),
   PyStr(<<"T", "a", "g", "g", "e", "d", "-", "A", "l", "l">>)}

InventoryNatives ==
  {<<>>, <<VlanObj(10)>>, <<VlanObj(20)>>, <<NamedVlan(S_VLAN_dash \o <<"1", "0">>)>>,
   <<NamedVlan(S_mgmt)>>}

InventoryTagged ==
  {<<>>, <<VlanObj(20)>>, <<VlanObj(20), VlanObj(50)>>, <<VlanObj(50), VlanObj(20)>>,
   <<VlanObj(10), VlanObj(20)>>}

\* one switch port against the inventory interface of the same name in another case
OnePortInputs ==
  {[ports |-> <<FgPort(P_port(<<"1">>), vlan, allowed)>>,
    interfaces |-> <<Iface(Some(11), <<"P", "o", "r", "t", "1">>, mode, native, tagged)>>] :
     vlan \in NativeNames, allowed \in AllowedLists,
     mode \in InventoryModes, native \in InventoryNatives, tagged \in InventoryTagged}

PortNames ==
  {P_port(<<"1">>), P_port(<<"2">>), P_port(<<"1", "0">>), <<"P", "o", "r", "t", "3">>,
   <<"g", "e", "1">>, <<"u", "p", "l", "i", "n", "k">>}

\* the port names of a switch, in dict order: distinct names
PortNameLists ==
  {q \in UNION {[1..n -> PortNames] : n \in 1..MaxPorts} :
     \A i, j \in 1..Len(q) : q[i] = q[j] => i = j}

\* the interfaces a device may have: port3 and uplink are never in the inventory
InventoryPool ==
  <<Iface(Some(11), P_port(<<"1">>), PyStr(S_access), <<VlanObj(20)>>, <<>>),
    Iface(Some(12), <<"P", "o", "r", "t", "2">>, PyStr(S_access), <<VlanObj(20)>>, <<>>),
    Iface(Some(13), P_port(<<"1", "0">>), PyStr(S_tagged), <<VlanObj(20)>>, <<>>),
    Iface(Some(14), <<"g", "e", "1">>, PyStr(S_access), <<VlanObj(10)>>, <<>>)>>

RECURSIVE Pick(_, _)
Pick(pool, chosen) ==
  IF pool = <<>> THEN <<>>
  ELSE (IF Len(pool) \in chosen THEN <<pool[Len(pool)]>> ELSE <<>>)
       \o Pick(SubSeq(pool, 1, Len(pool) - 1), chosen)

\* a switch of several ports, each with native vlan10 and no tagged VLAN, against
\* some of the interfaces of the pool
ManyPortInputs ==
  {[ports |-> [i \in 1..Len(q) |-> FgPort(q[i], N_vlan(<<"1", "0">>), <<>>)],
    interfaces |-> Pick(InventoryPool, chosen)] :
     q \in PortNameLists, chosen \in SUBSET (1..Len(InventoryPool))}

MaxRecords == 3

S_Port1 == <<"P", "o", "r", "t", "1">>

\* inventory records whose names all give the key "port1": Port1, port1, Port1 again, PORT1
CollidingRecords ==
  {Iface(Some(11), S_Port1, PyStr(S_access), <<VlanObj(10)>>, <<>>),
   Iface(Some(12), P_port(<<"1">>), PyStr(S_tagged), <<VlanObj(20)>>, <<VlanObj(50)>>),
   Iface(Some(13), S_Port1, PyStr(S_tagged), <<VlanObj(20)>>, <<VlanObj(20)>>),
   Iface(Some(14), <<"P", "O", "R", "T", "1">>, PyStr(S_tagged_all), <<>>, <<>>)}

\* one switch port against several inventory records of colliding names
CollidingInputs ==
  {[ports |-> <<FgPort(P_port(<<"1">>), N_vlan(<<"1", "0">>), <<>>)>>,
    interfaces |-> q] :
     q \in UNION {[1..n -> CollidingRecords] : n \in 1..MaxRecords}}

ValidatorInputs == OnePortInputs \cup ManyPortInputs \cup CollidingInputs

\* the run of run_sync is not started
InitV ==
  /\ only_switch_name = <<>>
  /\ max_netbox_updates = 1
  /\ use_cached_data = FALSE
  /\ n_devices = 0
  /\ nb_devices = [n \in {"SW1", "SW2"} |-> <<>>]
  /\ nb_ifaces = IfacesFull
  /\ nb_vlans = <<>>
  /\ files = <<>>
  /\ pc = "fg"
  /\ fg = 1
  /\ switches = <<>>
  /\ sw_i = 1
  /\ sw = NoSwitch
  /\ matched_any = FALSE
  /\ device_id = 0
  /\ interfaces = <<>>
  /\ mismatches = <<>>
  /\ m_i = 1
  /\ applied = 0
  /\ outcome = Running
  /\ log = <<>>
  /\ v_pc = "input"
  /\ vlan_translations \in TranslationTables
  /\ v_value = PyNone
  /\ v_vid = None
  /\ v_ports = <<>>
  /\ v_switch = NoSwitch
  /\ v_interfaces = <<>>
  /\ v_mismatches = <<>>
  /\ u_call = NoCall
  /\ u_result = NoResult
  /\ c_use_cache = FALSE
  /\ c_files = <<>>
  /\ c_hist = <<>>
  /\ g_pc = "off"
  /\ g_max_retries = 3
  /\ g_timeout = None
  /\ g_attempt = 0
  /\ g_requests = <<>>
  /\ g_waits = <<>>
  /\ g_result = NoResponse

\* _extract_vlan_vid(value)
Normalize ==
  /\ v_pc = "input"
  /\ \E value \in RawValues :
       /\ v_value' = value
       /\ v_vid' = _extract_vlan_vid(value)
  /\ v_pc' = "normalized"
  /\ UNCHANGED <<vlan_translations, v_ports, v_switch, v_interfaces, v_mismatches,
                 u_call, u_result>>
  /\ UNCHANGED <<rvars, cvars, gvars>>

\* validate_switch_vlans(switch, netbox_interfaces) for a switch that get_switches
\* built from the ports the FortiGate reported
Validate ==
  /\ v_pc = "input"
  /\ \E inp \in ValidatorInputs :
       /\ v_ports' = inp.ports
       /\ v_switch' = SwitchOf("SW1", inp.ports)
       /\ v_interfaces' = inp.interfaces
       /\ v_mismatches' = validate_switch_vlans(SwitchOf("SW1", inp.ports), inp.interfaces)
  /\ v_pc' = "validated"
  /\ UNCHANGED <<vlan_translations, v_value, v_vid, u_call, u_result>>
  /\ UNCHANGED <<rvars, cvars, gvars>>

\* the VLAN objects of the inventory for the update calls: vid 30 has none, vid 40 two
UpdateVlans == (10 :> <<101>>) @@ (20 :> <<102>>) @@ (30 :> <<>>) @@ (40 :> <<104, 114>>)

\* the interface the update calls are for
UpdateRecord == Iface(Some(11), S_Port1, PyStr(S_access), <<VlanObj(20)>>, <<>>)

\* mode_value = (mode or "").strip().lower(), for the spellings of the pool
ModeValue(mode) ==
  CASE mode \in {"access", " Access "} -> "access"
    [] mode \in {"tagged", "Tagged"} -> "tagged"
    [] OTHER -> mode

UpdateModes == {"access", " Access ", "tagged", "Tagged", "tagged-all", ""}

UpdateNatives == {None, Some(-1), Some(0), Some(10), Some(30), Some(40)}

UpdateTagged == {<<>>, <<20>>, <<20, 10>>, <<20, 30>>, <<40>>, <<0>>}

\* the cache directory before the call: empty, or the id of vid 40 resolved earlier
UpdateCaches == {<<>>, VlanKey(40) :> 104}

UpdateCalls ==
  [interface_id : {None, Some(11)}, mode : UpdateModes, native_vlan_vid : UpdateNatives,
   tagged_vlan_vids : UpdateTagged, net : NetOutcomes, use_cache : BOOLEAN,
   files : UpdateCaches]

\* update_interface_vlan_config from its first line: the interface id test of lines
\* 244-245 and the mode normalisation of line 247, then the resolutions and the PATCH
UpdateCall(c) ==
  IF c.interface_id = None
  THEN [ok |-> FALSE, patched |-> FALSE, payload |-> PatchPayload(ModeValue(c.mode), None, <<>>),
        files |-> c.files]
  ELSE update_interface_vlan_config(UpdateVlans, c.files, c.use_cache, c.net, ModeValue(c.mode),
                                    c.native_vlan_vid, c.tagged_vlan_vids)

\* one call of update_interface_vlan_config against the inventory
Update ==
  /\ v_pc = "input"
  /\ \E c \in UpdateCalls :
       LET r == UpdateCall(c)
       IN /\ u_call' = c
          /\ u_result' = [ok |-> r.ok, patched |-> r.patched, payload |-> r.payload,
                          files |-> r.files,
                          rec |-> IF r.ok /\ r.patched
                                  THEN Patched(UpdateVlans, UpdateRecord, r.payload)
                                  ELSE UpdateRecord]
  /\ v_pc' = "updated"
  /\ UNCHANGED <<vlan_translations, v_value, v_vid, v_ports, v_switch, v_interfaces,
                 v_mismatches>>
  /\ UNCHANGED <<rvars, cvars, gvars>>

NextV ==
  \/ Normalize
  \/ Validate
  \/ Update

SpecV == InitV /\ [][NextV]_vars

(***************************************************************************)
(* cache_manager.py on its own: any sequence of get, set and delete on one *)
(* cache directory, by CacheManager objects opened with either flag        *)
(***************************************************************************)
MaxOps == 4

CacheKeys == {VlanKey(10), VlanKey(20)}

\* the data of the n-th call: every set stores a value of its own
CacheData(n) == 100 + n

\* one call and what it returned (ret for get, deleted for delete)
CacheCall(op, key, data, use_cache, ret, deleted) ==
  [op |-> op, key |-> key, data |-> data, use_cache |-> use_cache, ret |-> ret,
   deleted |-> deleted]

InitC ==
  /\ only_switch_name = <<>>
  /\ max_netbox_updates = 1
  /\ use_cached_data = FALSE
  /\ n_devices = 0
  /\ nb_devices = [n \in {"SW1", "SW2"} |-> <<>>]
  /\ nb_ifaces = IfacesFull
  /\ nb_vlans = <<>>
  /\ files = <<>>
  /\ pc = "fg"
  /\ fg = 1
  /\ switches = <<>>
  /\ sw_i = 1
  /\ sw = NoSwitch
  /\ matched_any = FALSE
  /\ device_id = 0
  /\ interfaces = <<>>
  /\ mismatches = <<>>
  /\ m_i = 1
  /\ applied = 0
  /\ outcome = Running
  /\ log = <<>>
  /\ v_pc = "off"
  /\ vlan_translations = <<>>
  /\ v_value = PyNone
  /\ v_vid = None
  /\ v_ports = <<>>
  /\ v_switch = NoSwitch
  /\ v_interfaces = <<>>
  /\ v_mismatches = <<>>
  /\ u_call = NoCall
  /\ u_result = NoResult
  /\ c_use_cache \in BOOLEAN
  /\ c_files = <<>>
  /\ c_hist = <<>>
  /\ g_pc = "off"
  /\ g_max_retries = 3
  /\ g_timeout = None
  /\ g_attempt = 0
  /\ g_requests = <<>>
  /\ g_waits = <<>>
  /\ g_result = NoResponse

\* CacheManager.__init__ on the same directory: mkdir(exist_ok=True) keeps the files
CacheManagerInit ==
  /\ \E use_cache \in BOOLEAN : c_use_cache' = use_cache
  /\ UNCHANGED <<c_files, c_hist>>
  /\ UNCHANGED <<rvars, vvars, gvars>>

CacheManagerGet ==
  /\ Len(c_hist) < MaxOps
  /\ \E key \in CacheKeys :
       c_hist' = Append(c_hist, CacheCall("get", key, 0, c_use_cache,
                                          CacheGet(c_files, c_use_cache, key), FALSE))
  /\ UNCHANGED <<c_use_cache, c_files>>
  /\ UNCHANGED <<rvars, vvars, gvars>>

CacheManagerSet ==
  /\ Len(c_hist) < MaxOps
  /\ \E key \in CacheKeys :
       LET data == CacheData(Len(c_hist) + 1)
       IN
       /\ c_files' = CacheSet(c_files, key, data)
       /\ c_hist' = Append(c_hist, CacheCall("set", key, data, c_use_cache, <<>>, FALSE))
  /\ UNCHANGED c_use_cache
  /\ UNCHANGED <<rvars, vvars, gvars>>

CacheManagerDelete ==
  /\ Len(c_hist) < MaxOps
  /\ \E key \in CacheKeys :
       /\ c_files' = CacheDelete(c_files, key)
       /\ c_hist' = Append(c_hist, CacheCall("delete", key, 0, c_use_cache, <<>>,
                                             CacheDeleteReturn(c_files, key)))
  /\ UNCHANGED c_use_cache
  /\ UNCHANGED <<rvars, vvars, gvars>>

NextC ==
  \/ CacheManagerInit
  \/ CacheManagerGet
  \/ CacheManagerSet
  \/ CacheManagerDelete

SpecC == InitC /\ [][NextC]_vars

(***************************************************************************)
(* netbox_client.py: one call of NetBoxClient._get, request by request.    *)
(* The exceptions are those of the requests library: ReadTimeout is a      *)
(* Timeout; ConnectTimeout is a ConnectionError and a Timeout.             *)
(***************************************************************************)
MaxRetries == 3

\* NetBoxClient.__init__: timeout: int = 120
DefaultTimeout == 120

\* self.vlan_lookup_timeout_seconds
VlanLookupTimeout == 20

\* the direct base classes of an exception of the requests library
Bases(e) ==
  CASE e = "ReadTimeout" -> {"Timeout"}
    [] e = "ConnectTimeout" -> {"ConnectionError", "Timeout"}
    [] e = "ConnectionError" -> {"RequestException"}
    [] e = "Timeout" -> {"RequestException"}
    [] e = "HTTPError" -> {"RequestException"}
    [] e = "JSONDecodeError" -> {"RequestException"}
    [] OTHER -> {}

\* does `except cls` catch e
IsInstance(e, cls) ==
  \/ e = cls
  \/ cls \in Bases(e)
  \/ \E b \in Bases(e) : cls \in Bases(b)

\* the two except clauses of _get
Caught(e) == IsInstance(e, "ReadTimeout") \/ IsInstance(e, "ConnectionError")

\* what one request can do: a JSON answer, or the exception session.get,
\* raise_for_status or resp.json raises
ResponseOutcomes ==
  {"ok", "ReadTimeout", "ConnectionError", "ConnectTimeout", "HTTPError", "JSONDecodeError"}

\* effective_timeout = (timeout or self.default_timeout) + (attempt * 30)
EffectiveTimeout(timeout, attempt) ==
  (IF timeout = None \/ timeout = Some(0) THEN DefaultTimeout ELSE timeout[1]) + attempt * 30

\* wait_time = 2 ** attempt
WaitTime(attempt) == 2 ^ attempt

\* LastAttempt with a defect: the test is off by one, no attempt is the last
LastAttemptOffByOne(attempt, max_retries) == ~(attempt < max_retries)

\* the else branch of `if attempt < max_retries - 1`
LastAttempt(attempt, max_retries) == ~(attempt < max_retries - 1)

InitG ==
  /\ only_switch_name = <<>>
  /\ max_netbox_updates = 1
  /\ use_cached_data = FALSE
  /\ n_devices = 0
  /\ nb_devices = [n \in {"SW1", "SW2"} |-> <<>>]
  /\ nb_ifaces = IfacesFull
  /\ nb_vlans = <<>>
  /\ files = <<>>
  /\ pc = "fg"
  /\ fg = 1
  /\ switches = <<>>
  /\ sw_i = 1
  /\ sw = NoSwitch
  /\ matched_any = FALSE
  /\ device_id = 0
  /\ interfaces = <<>>
  /\ mismatches = <<>>
  /\ m_i = 1
  /\ applied = 0
  /\ outcome = Running
  /\ log = <<>>
  /\ v_pc = "off"
  /\ vlan_translations = <<>>
  /\ v_value = PyNone
  /\ v_vid = None
  /\ v_ports = <<>>
  /\ v_switch = NoSwitch
  /\ v_interfaces = <<>>
  /\ v_mismatches = <<>>
  /\ u_call = NoCall
  /\ u_result = NoResult
  /\ c_use_cache = FALSE
  /\ c_files = <<>>
  /\ c_hist = <<>>
  /\ g_pc = "request"
  /\ g_max_retries \in 1..MaxRetries
  /\ g_timeout \in {None, Some(VlanLookupTimeout)}
  /\ g_attempt = 0
  /\ g_requests = <<>>
  /\ g_waits = <<>>
  /\ g_result = NoResponse

\* lines 51-83 up to the sleep: one request and what _get does with its outcome
Request ==
  /\ g_pc = "request"
  /\ \E o \in ResponseOutcomes :
       /\ g_requests' = Append(g_requests, [timeout |-> EffectiveTimeout(g_timeout, g_attempt),
                                            outcome |-> o])
       /\ IF o = "ok"
          THEN g_pc' = "done" /\ g_result' = [kind |-> "json", err |-> ""]
          ELSE IF Caught(o) /\ ~LastAttempt(g_attempt, g_max_retries)
          THEN g_pc' = "sleep" /\ g_result' = g_result
          ELSE g_pc' = "done" /\ g_result' = [kind |-> "raised", err |-> o]
  /\ UNCHANGED <<g_max_retries, g_timeout, g_attempt, g_waits>>
  /\ UNCHANGED <<rvars, vvars, cvars>>

\* lines 70 and 81, then the next turn of the loop; a function whose loop ends
\* returns None
Sleep ==
  /\ g_pc = "sleep"
  /\ g_waits' = Append(g_waits, WaitTime(g_attempt))
  /\ g_attempt' = g_attempt + 1
  /\ IF g_attempt + 1 < g_max_retries
     THEN g_pc' = "request" /\ g_result' = g_result
     ELSE g_pc' = "done" /\ g_result' = [kind |-> "returned_none", err |-> ""]
  /\ UNCHANGED <<g_max_retries, g_timeout, g_requests>>
  /\ UNCHANGED <<rvars, vvars, cvars>>

NextG ==
  \/ Request
  \/ Sleep

SpecG == InitG /\ [][NextG]_vars

(***************************************************************************)
(* Reading the history                                                     *)
(***************************************************************************)
LookupOps == {"get_device", "device_missing", "get_device_failed"}

InterfacesOps == {"interfaces_cached", "interfaces_fetched"}

VerifyOps == {"verify_ok", "verify_failed"}

FetchFailedOps == {"get_switches_failed", "get_device_failed", "get_interfaces_failed"}

CountOps(ops) == Cardinality({i \in DOMAIN log : log[i].op \in ops})

LastOp == IF log = <<>> THEN "" ELSE log[Len(log)].op

\* index of the last device lookup: the start of the current switch pass
LastLookup ==
  IF \E i \in DOMAIN log : log[i].op \in LookupOps
  THEN CHOOSE i \in DOMAIN log :
         /\ log[i].op \in LookupOps
         /\ \A j \in DOMAIN log : log[j].op \in LookupOps => j <= i
  ELSE 0

\* the interface ids PATCHed in the current switch pass, in order
PassPatchIds ==
  LET pass == SubSeq(log, LastLookup + 1, Len(log))
      patches == SelectSeq(pass, LAMBDA e : e.op = "patch")
  IN [i \in 1..Len(patches) |-> patches[i].n]

\* mismatches is the result of validate_switch_vlans for the current sw
Validated == \E i \in DOMAIN log : i > LastLookup /\ log[i].op \in InterfacesOps

AllWritable == \A i \in DOMAIN mismatches : mismatches[i].netbox_interface_id # None

FirstIds(k) == [i \in 1..k |-> mismatches[i].netbox_interface_id[1]]

PortOf(s, name) == s.ports[CHOOSE i \in DOMAIN s.ports : s.ports[i].name = name]

Max0(n) == IF n > 0 THEN n ELSE 0

(***************************************************************************)
(* The claims                                                              *)
(***************************************************************************)

\* C1: in single-target mode with budget B the number of inventory writes (PATCH requests)
\* issued in the whole run never exceeds max(B, 0), and the remaining budget of the
\* write-back loop is never negative.
C1_BudgetIsGlobal ==
  Filtered =>
    /\ CountOps({"patch"}) <= Max0(max_netbox_updates)
    /\ (pc = "apply" => max_updates - applied >= 0)

\* C2: in a run without a target filter (only_switch_name None or empty) no inventory
\* write is issued: no PATCH is sent, the write-back loop is never entered and the
\* interface records stay as they were, whatever the mismatches and the budget.
C2_NoWriteInFullRun ==
  ~Filtered =>
    /\ CountOps({"patch", "patch_failed", "cache_delete"}) = 0
    /\ pc # "apply"
    /\ nb_ifaces \in IfaceTables

C2_Witness ==
  /\ ~Filtered
  /\ max_netbox_updates >= 1
  /\ Validated
  /\ Len(mismatches) >= 2
  /\ outcome = Return(0, 183)

\* C3: in single-target mode with budget B >= 1 and N > B mismatches that all carry an
\* integer interface id, the write-back loop writes the mismatches in list order, never
\* leaves the loop other than by stopping the run, and when it stops by return it has
\* issued exactly B writes, for the first B mismatches; after the stop nothing more happens.
C3_Case == Filtered /\ max_updates >= 1 /\ Len(mismatches) > max_updates /\ AllWritable

C3_ExactlyBudgetWrites ==
  /\ [](C3_Case /\ pc = "apply" =>
          /\ applied = m_i - 1
          /\ applied < max_updates
          /\ PassPatchIds = FirstIds(applied))
  /\ [](C3_Case /\ pc = "done" /\ LastOp \in VerifyOps =>
          /\ outcome.kind = "returned"
          /\ applied = max_updates
          /\ PassPatchIds = FirstIds(max_updates))
  /\ [][C3_Case /\ pc = "apply" => pc' \in {"apply", "done"}]_vars
  /\ [][pc # "done"]_vars

C3_Witness ==
  /\ C3_Case
  /\ max_updates = 2
  /\ Len(mismatches) = 3
  /\ pc = "done"
  /\ outcome.kind = "returned"
  /\ PassPatchIds = FirstIds(2)

\* the run was stopped by the kill-switch: the budget was reached in the write-back loop
BudgetStop ==
  /\ pc = "done"
  /\ LastOp \in VerifyOps
  /\ max_updates >= 1
  /\ applied >= max_updates

C5_MissingDeviceStops ==
  /\ [](\A i \in DOMAIN log :
          /\ log[i].op = "device_missing" =>
               /\ i = Len(log)
               /\ nb_devices[log[i].sw] = <<>>
               /\ pc = "done"
               /\ outcome.kind = "returned"
               /\ outcome.code = 1
          /\ log[i].op = "get_device" => nb_devices[log[i].sw] # <<>>)
  /\ [][pc # "done"]_vars
  /\ [][pc = "sw" /\ nb_devices[switches[sw_i].name] = <<>> => pc' = "done"]_vars

C5_Witness ==
  /\ LastOp = "device_missing"
  /\ outcome = Return(1, 83)
  /\ sw_i < Len(switches)
  /\ fg < n_devices

\* C6: a failing fetch step (the switches of a FortiGate, the inventory device by name,
\* its interfaces) ends the run by returning 1, and run_sync never ends other than by
\* returning 0 or 1.
C6_FetchFailureReturnsOne ==
  /\ LastOp \in FetchFailedOps => outcome.kind = "returned" /\ outcome.code = 1
  /\ pc = "done" => outcome.kind = "returned" /\ outcome.code \in {0, 1}

\* C7: when a VLAN vid of the desired state cannot be resolved during write-back, only
\* that port's update is skipped: the run is not aborted and goes on with the next
\* mismatch, and the budget is not charged.
C7_UnresolvableSkipsPort ==
  LastOp = "resolve_failed" =>
    /\ outcome.kind = "running"
    /\ pc # "done"

\* C8: in single-target mode, once a write-back pass over the target switch has been
\* completed with budget remaining, no further switch is looked up, reconciled or written.
C8_RunEndsAfterTarget ==
  Filtered =>
    \A i, j \in DOMAIN log :
      (i < j /\ log[i].op \in VerifyOps) => log[j].op \notin LookupOps

\* C9: when every FortiGate reported its switches and no switch was processed, run_sync
\* returns 1 if a target filter was set and 0 if none was set.
C9_NoSwitchProcessed ==
  (pc = "done" /\ CountOps({"get_switches"}) = n_devices /\ CountOps(LookupOps) = 0) =>
    /\ outcome.kind = "returned"
    /\ outcome.code = IF Filtered THEN 1 ELSE 0

C9_Witness ==
  /\ pc = "done"
  /\ Filtered
  /\ n_devices >= 2
  /\ CountOps({"get_switches"}) = n_devices
  /\ CountOps(LookupOps) = 0
  /\ outcome.code = 1

\* C10: on every mismatch of validate_switch_vlans the desired state is the switch's
\* state: desired native = switch native vid, desired tagged = the switch's tagged vid
\* set, desired mode = tagged if the switch has any tagged VLAN and access otherwise,
\* also when either side is tagged-all.
C10_DesiredIsSwitchState ==
  Validated =>
    \A i \in DOMAIN mismatches :
      LET m == mismatches[i]
          p == PortOf(sw, m.port)
      IN /\ m.desired_native_vid = FgNative(p)
         /\ m.desired_tagged_vids = FgTagged(p)
         /\ m.desired_mode = IF FgTagged(p) # <<>> \/ FgIsAll(p) THEN "tagged" ELSE "access"

(***************************************************************************)
(* Reading a reconciliation: the switch built by get_switches, the         *)
(* inventory interfaces and the mismatches validate_switch_vlans returned  *)
(***************************************************************************)
ToSet(q) == {q[i] : i \in 1..Len(q)}

Ports == ToSet(v_switch.ports)

\* the name a port is matched by: case-insensitive, surrounding blanks ignored
MatchName(name) == Lower(Strip(name))

\* the inventory has an interface of the same case-insensitive name
InInventory(p) ==
  \E i \in 1..Len(v_interfaces) :
    v_interfaces[i].name # <<>> /\ MatchName(v_interfaces[i].name) = MatchName(p.name)

\* the inventory state of the port's counterpart
Counterpart(p) == _extract_netbox_vlan_info(v_interfaces)[MatchName(p.name)]

\* the vids of the port's allowed-VLAN list, as a set
SwitchTaggedSet(p) ==
  {x[1] : x \in {_extract_vlan_vid(p.allowed_vlans[i]) : i \in 1..Len(p.allowed_vlans)} \ {None}}

\* the switch side is tagged-all: the list holds "*"
SwitchIsAll(p) ==
  \E i \in 1..Len(p.allowed_vlans) :
    p.allowed_vlans[i].kind = "str" /\ p.allowed_vlans[i].str = S_star

MismatchesOf(p) == {i \in 1..Len(v_mismatches) : v_mismatches[i].port = p.name}

\* C11: for a port present on both sides where neither side is tagged-all, a mismatch
\* is recorded if and only if the native vids differ or the tagged vid sets differ as
\* sets; order and duplicates of the lists, and the inventory's mode, play no part
C11_ExplicitMismatchIff ==
  v_pc = "validated" =>
    \A p \in Ports :
      InInventory(p) /\ ~SwitchIsAll(p) /\ ~Counterpart(p).tagged_vlan_vids.all =>
        ((MismatchesOf(p) # {}) <=>
           \/ _extract_vlan_vid(p.native_vlan) # Counterpart(p).native_vlan_vid
           \/ SwitchTaggedSet(p) # ToSet(Counterpart(p).tagged_vlan_vids.vids))

\* the switch lists vlan50, vlan20, vlan50 and the inventory 20, 50 in declared mode
\* "tagged", the natives agree: no mismatch
C11_Witness ==
  /\ v_pc = "validated"
  /\ Len(v_ports) = 1
  /\ v_ports[1].vlan = N_vlan(<<"1", "0">>)
  /\ v_ports[1].allowed = <<N_vlan(<<"5", "0">>), N_vlan(<<"2", "0">>), N_vlan(<<"5", "0">>)>>
  /\ v_interfaces[1].mode = PyStr(S_tagged)
  /\ v_interfaces[1].untagged_vlan = <<VlanObj(10)>>
  /\ v_interfaces[1].tagged_vlans = <<VlanObj(20), VlanObj(50)>>
  /\ v_mismatches = <<>>

\* C12: when the switch side or the inventory side is tagged-all, a mismatch is
\* recorded if and only if the native vids differ; explicit tagged lists play no part
C12_TaggedAllMismatchIff ==
  v_pc = "validated" =>
    \A p \in Ports :
      InInventory(p) /\ (SwitchIsAll(p) \/ Counterpart(p).tagged_vlan_vids.all) =>
        ((MismatchesOf(p) # {}) <=>
           _extract_vlan_vid(p.native_vlan) # Counterpart(p).native_vlan_vid)

\* the switch allows "*", the inventory is "tagged" with the explicit list 20, the
\* natives agree: no mismatch
C12_Witness ==
  /\ v_pc = "validated"
  /\ Len(v_ports) = 1
  /\ v_ports[1].vlan = N_vlan(<<"1", "0">>)
  /\ v_ports[1].allowed = <<S_star>>
  /\ v_interfaces[1].mode = PyStr(S_tagged)
  /\ v_interfaces[1].untagged_vlan = <<VlanObj(10)>>
  /\ v_interfaces[1].tagged_vlans = <<VlanObj(20)>>
  /\ v_mismatches = <<>>

\* C13: the switch-side tagged set used for the comparison and for the desired state
\* never contains the port's native VLAN
C13_TaggedExcludesNative ==
  v_pc = "validated" =>
    /\ \A p \in Ports :
         FgNative(p) # None => FgNative(p)[1] \notin ToSet(FgTagged(p))
    /\ \A i \in 1..Len(v_mismatches) :
         v_mismatches[i].desired_native_vid # None =>
           v_mismatches[i].desired_native_vid[1] \notin ToSet(v_mismatches[i].desired_tagged_vids)

\* a port name without its numeric suffix, and the suffix as a number
Stem(s) == SubSeq(s, 1, Len(s) - TrailingDigits(s))

Number(s) == DigitsToInt(Drop(s, Len(s) - TrailingDigits(s)))

\* natural port order: by stem, then by the numeric suffix compared as a number
NaturalBefore(a, b) ==
  \/ StrLess(Stem(MatchName(a)), Stem(MatchName(b)))
  \/ Stem(MatchName(a)) = Stem(MatchName(b)) /\ Number(MatchName(a)) < Number(MatchName(b))

\* C14: the mismatches are emitted in natural port order (port1, port2, port10),
\* whatever the port names and their dict order, at most one per switch port
C14_NaturalPortOrder ==
  v_pc = "validated" =>
    \A i, j \in 1..Len(v_mismatches) :
      i < j => /\ ~NaturalBefore(v_mismatches[j].port, v_mismatches[i].port)
               /\ v_mismatches[i].port # v_mismatches[j].port

\* the switch reports port10, port2, port1 and all three are mismatches, emitted as
\* port1, port2, port10
C14_Witness ==
  /\ v_pc = "validated"
  /\ Len(v_ports) = 3
  /\ v_ports[1].name = P_port(<<"1", "0">>)
  /\ v_ports[2].name = P_port(<<"2">>)
  /\ v_ports[3].name = P_port(<<"1">>)
  /\ Len(v_mismatches) = 3
  /\ v_mismatches[1].port = P_port(<<"1">>)
  /\ v_mismatches[2].port = P_port(<<"2">>)
  /\ v_mismatches[3].port = P_port(<<"1", "0">>)

\* C15: a switch port without an inventory interface of the same case-insensitive name
\* produces no mismatch and does not stop the reconciliation of the other ports: every
\* mismatch is for a port with a counterpart, and every port whose native vid differs
\* from its counterpart's has its mismatch
C15_MissingPortIsSkipped ==
  v_pc = "validated" =>
    /\ \A p \in Ports : ~InInventory(p) => MismatchesOf(p) = {}
    /\ \A i \in 1..Len(v_mismatches) :
         \E k \in 1..Len(v_interfaces) :
           /\ v_interfaces[k].name = v_mismatches[i].netbox_interface_name
           /\ MatchName(v_interfaces[k].name) = MatchName(v_mismatches[i].port)
    /\ \A p \in Ports :
         InInventory(p) /\ _extract_vlan_vid(p.native_vlan) # Counterpart(p).native_vlan_vid =>
           MismatchesOf(p) # {}

\* Port3 is not in the inventory and comes before port10 in port order; port10 is a
\* mismatch and is reported
C15_Witness ==
  /\ v_pc = "validated"
  /\ Len(v_ports) = 2
  /\ v_ports[1].name = P_port(<<"1", "0">>)
  /\ v_ports[2].name = <<"P", "o", "r", "t", "3">>
  /\ Len(v_mismatches) = 1
  /\ v_mismatches[1].port = P_port(<<"1", "0">>)

\* C16: every VLAN identity the normalizer produces has vid >= 1, for integers and
\* for strings; an absent or empty input gives no identity
C16_VidAtLeastOne ==
  v_pc = "normalized" =>
    /\ v_vid # None => v_vid[1] >= 1
    /\ v_value \in {PyNone, PyStr(<<>>), PyStr(<<" ">>)} => v_vid = None

\* a non-empty name that is no VLAN spelling
IsOpaqueName(v) == v.kind = "str" /\ Strip(v.str) # <<>> /\ _extract_vlan_vid(v) = None

\* the inventory interfaces matched with port p
InterfacesOf(p) ==
  {i \in 1..Len(v_interfaces) :
     v_interfaces[i].name # <<>> /\ MatchName(v_interfaces[i].name) = MatchName(p.name)}

\* the name of the untagged VLAN of an interface, when it is opaque and not p's native
OtherOpaqueNative(iface, p) ==
  /\ iface.untagged_vlan # <<>>
  /\ iface.untagged_vlan[1].vid = PyNone
  /\ IsOpaqueName(iface.untagged_vlan[1].name)
  /\ iface.untagged_vlan[1].name # p.native_vlan

\* C17: a name that matches neither pattern is an identity of its own: a port whose
\* switch-side native VLAN is such a name differs from an inventory port that has no
\* native VLAN, and from one whose native VLAN is another such name
C17_OpaqueNameIsAnIdentity ==
  v_pc = "validated" =>
    \A p \in Ports :
      IsOpaqueName(p.native_vlan) =>
        \A i \in InterfacesOf(p) :
          v_interfaces[i].untagged_vlan = <<>> \/ OtherOpaqueNative(v_interfaces[i], p) =>
            MismatchesOf(p) # {}

\* C18: a raw VLAN name that is listed in the translation table normalizes to the
\* table's VLAN, before any pattern extraction: the desired native vid of a mismatch
\* of a port whose native VLAN name is listed is the translated one
C18_TranslationFirst ==
  v_pc = "validated" =>
    \A k \in 1..Len(v_ports) :
      v_ports[k].vlan \in DOMAIN vlan_translations =>
        \A i \in 1..Len(v_mismatches) :
          v_mismatches[i].port = v_ports[k].name =>
            v_mismatches[i].desired_native_vid
              = _extract_vlan_vid(PyStr(vlan_translations[v_ports[k].vlan]))

\* C19: for n >= 1 the integer n and the strings "n", "vlan<n>", "VLAN-<n>", "vlan <n>"
\* and "VLAN-<n> (<n>)", in any letter case, all normalize to vid n
C19_SpellingsAgree ==
  v_pc = "normalized" =>
    \A n \in 1..MaxVid : v_value \in Spellings(n) => v_vid = Some(n)

\* "vLaN 12 (12)" gave vid 12
C19_Witness ==
  /\ v_pc = "normalized"
  /\ v_value = PyStr(<<"v", "L", "a", "N", " ", "1", "2", " ", "(", "1", "2", ")">>)
  /\ v_vid = Some(12)

\* an identity given back to the normalizer as a value
AsValue(vid) == IF vid = None THEN PyNone ELSE PyInt(vid[1])

\* C20: normalizing the result of a normalization changes nothing, 'no identity'
\* included
C20_NormalizeIdempotent ==
  v_pc = "normalized" => _extract_vlan_vid(AsValue(v_vid)) = v_vid

\* a string was normalized to a vid, and that vid normalizes to itself
C20_Witness ==
  /\ v_pc = "normalized"
  /\ v_value = PyStr(S_VLAN_dash \o <<"1", "2">>)
  /\ v_vid = Some(12)
  /\ _extract_vlan_vid(PyInt(12)) = Some(12)

\* the inventory states extracted from the interface records
NbMap == _extract_netbox_vlan_info(v_interfaces)

\* the mode an interface record declares, whatever its letter case
DeclaredMode(iface) == IF iface.mode.kind = "str" THEN Lower(Strip(iface.mode.str)) ELSE <<>>

\* the inventory state of one record taken alone
EntryOf(iface) == NetboxInfoStep(<<>>, iface)[MatchName(iface.name)]

\* C21: every inventory state with mode access has an empty tagged list and every one
\* with mode tagged-all has exactly the "all" sentinel, whatever tagged entries the
\* record carries; a mismatch whose desired mode is access has no desired tagged vids
C21_ModeInvariant ==
  v_pc = "validated" =>
    /\ \A k \in DOMAIN NbMap :
         /\ NbMap[k].mode = S_access =>
              NbMap[k].tagged_vlan_vids = [all |-> FALSE, vids |-> <<>>]
         /\ NbMap[k].mode = S_tagged_all =>
              NbMap[k].tagged_vlan_vids = [all |-> TRUE, vids |-> <<>>]
    /\ \A i \in 1..Len(v_interfaces) :
         v_interfaces[i].name # <<>> =>
           /\ DeclaredMode(v_interfaces[i]) = S_access =>
                EntryOf(v_interfaces[i]).tagged_vlan_vids = [all |-> FALSE, vids |-> <<>>]
           /\ DeclaredMode(v_interfaces[i]) = S_tagged_all =>
                EntryOf(v_interfaces[i]).tagged_vlan_vids = [all |-> TRUE, vids |-> <<>>]
    /\ \A i \in 1..Len(v_mismatches) :
         v_mismatches[i].desired_mode = "access" => v_mismatches[i].desired_tagged_vids = <<>>

\* a record declared "Tagged-All" that carries the tagged VLANs 20 and 50: its state
\* is the sentinel
C21_Witness ==
  /\ v_pc = "validated"
  /\ Len(v_interfaces) = 1
  /\ v_interfaces[1].mode = PyStr(<<"T", "a", "g", "g", "e", "d", "-", "A", "l", "l">>)
  /\ v_interfaces[1].tagged_vlans = <<VlanObj(20), VlanObj(50)>>
  /\ NbMap[P_port(<<"1">>)].tagged_vlan_vids.all

\* index of the first record whose name gives key k
FirstRecord(k) ==
  CHOOSE i \in 1..Len(v_interfaces) :
    /\ v_interfaces[i].name # <<>> /\ MatchName(v_interfaces[i].name) = k
    /\ \A j \in 1..(i - 1) :
         v_interfaces[j].name = <<>> \/ MatchName(v_interfaces[j].name) # k

\* index of the last record that carries exactly the first-seen name of key k
LastOfFirstName(k) ==
  CHOOSE i \in 1..Len(v_interfaces) :
    /\ v_interfaces[i].name = v_interfaces[FirstRecord(k)].name
    /\ \A j \in (i + 1)..Len(v_interfaces) :
         v_interfaces[j].name # v_interfaces[FirstRecord(k)].name

\* C22 as stated: of the records whose names collide under the case-insensitive key
\* the first-seen is kept, whatever the later records contain
C22_FirstSeenKept ==
  v_pc = "validated" =>
    \A i \in 1..Len(v_interfaces) :
      v_interfaces[i].name # <<>> =>
        LET k == MatchName(v_interfaces[i].name)
        IN k \in DOMAIN NbMap /\ NbMap[k] = EntryOf(v_interfaces[FirstRecord(k)])

\* C22: of the records whose names collide under the case-insensitive key the
\* first-seen name is kept: records spelled otherwise are ignored, and the entry is
\* that of the last record that carries exactly the first-seen name
C22_FirstSeenNameKept ==
  v_pc = "validated" =>
    \A i \in 1..Len(v_interfaces) :
      v_interfaces[i].name # <<>> =>
        LET k == MatchName(v_interfaces[i].name)
        IN k \in DOMAIN NbMap /\ NbMap[k] = EntryOf(v_interfaces[LastOfFirstName(k)])

\* Port1 (id 11), then port1 (id 12), then PORT1 (id 14): the entry is that of id 11
C22_Witness ==
  /\ v_pc = "validated"
  /\ Len(v_interfaces) = 3
  /\ v_interfaces[1].id = Some(11)
  /\ v_interfaces[2].id = Some(12)
  /\ v_interfaces[3].id = Some(14)
  /\ NbMap[P_port(<<"1">>)].id = Some(11)
  /\ NbMap[P_port(<<"1">>)].name = S_Port1

\* the verifications done since the last device lookup
PassVerifications == Cardinality({i \in DOMAIN log : i > LastLookup /\ log[i].op \in VerifyOps})

C24_OneWriteAttempt ==
  /\ \A i, j \in DOMAIN PassPatchIds : PassPatchIds[i] = PassPatchIds[j] => i = j
  /\ Validated => Len(PassPatchIds) <= Len(mismatches)
  /\ \A i \in DOMAIN log :
       log[i].op = "patch_failed" => i = Len(log) /\ outcome = Raise(113)
  /\ LastOp = "verify_failed" =>
       /\ applied = PassVerifications
       /\ IF applied >= max_updates THEN outcome = Return(0, 176)
          ELSE /\ outcome \in {Running, Return(0, 183)}
               /\ \/ pc = "apply" /\ m_i <= Len(mismatches)
                     /\ mismatches[m_i].netbox_interface_id # Some(log[Len(log)].n)
                  \/ pc # "apply" /\ m_i = Len(mismatches)

\* a verification failed, budget remained, and the next mismatch of the pass was written
C24_Witness ==
  \E i, j \in DOMAIN log :
    /\ LastLookup < i /\ i < j
    /\ log[i].op = "verify_failed"
    /\ log[j].op = "patch"
    /\ log[j].n # log[i].n

\* the interface record after the desired state of mismatch m was stored exactly
FaithfulRecord(rec, m) ==
  [rec EXCEPT !.mode = PyStr(ModeString(m.desired_mode)),
              !.untagged_vlan = IF m.desired_native_vid = None THEN <<>>
                                ELSE <<VlanObj(m.desired_native_vid[1])>>,
              !.tagged_vlans = IF m.desired_mode = "tagged"
                               THEN [i \in 1..Len(m.desired_tagged_vids) |->
                                       VlanObj(m.desired_tagged_vids[i])]
                               ELSE <<>>]

\* the inventory after the write-back of mismatch m
WrittenBack(recs, m) ==
  [i \in 1..Len(recs) |->
     IF recs[i].id = m.netbox_interface_id /\ recs[i].name = m.netbox_interface_name
     THEN FaithfulRecord(recs[i], m) ELSE recs[i]]

\* C25: write-back converges in one step: once the desired state of a mismatch is
\* stored as requested, reconciling the same switch again gives no mismatch for that
\* port, for every combination of modes on both sides, tagged-all included
C25_ConvergesInOneStep ==
  v_pc = "validated" =>
    \A i \in 1..Len(v_mismatches) :
      LET again == validate_switch_vlans(v_switch, WrittenBack(v_interfaces, v_mismatches[i]))
      IN \A j \in 1..Len(again) : again[j].port # v_mismatches[i].port

\* the vid resolves to exactly one VLAN object id in call c: a positive vid that is
\* cached, or that one VLAN of the inventory carries
Resolvable(c, vid) ==
  /\ vid >= 1
  /\ \/ c.use_cache /\ VlanKey(vid) \in DOMAIN c.files
     \/ c.net # "get_error" /\ vid \in DOMAIN UpdateVlans /\ Len(UpdateVlans[vid]) = 1

\* the object id the vid resolves to
ResolvedId(c, vid) ==
  IF c.use_cache /\ VlanKey(vid) \in DOMAIN c.files THEN c.files[VlanKey(vid)]
  ELSE UpdateVlans[vid][1]

\* C26: update_interface_vlan_config sends the PATCH only after the native vid and
\* every tagged vid resolved to exactly one object id: with an interface id that is no
\* integer, a mode other than access/tagged or a failed resolution nothing is sent and
\* the interface record is unchanged; in access mode the PATCH carries no tagged VLAN
C26_PatchOnlyWhenResolved ==
  v_pc = "updated" =>
    /\ u_result.patched =>
         /\ u_call.interface_id # None
         /\ ModeValue(u_call.mode) \in {"access", "tagged"}
         /\ u_call.native_vlan_vid # None => Resolvable(u_call, u_call.native_vlan_vid[1])
         /\ \A i \in 1..Len(u_call.tagged_vlan_vids) :
              Resolvable(u_call, u_call.tagged_vlan_vids[i])
         /\ u_result.payload.untagged_vlan
              = IF u_call.native_vlan_vid = None THEN None
                ELSE Some(ResolvedId(u_call, u_call.native_vlan_vid[1]))
         /\ u_result.payload.tagged_vlans
              = IF ModeValue(u_call.mode) = "access" THEN <<>>
                ELSE [i \in 1..Len(u_call.tagged_vlan_vids) |->
                        ResolvedId(u_call, u_call.tagged_vlan_vids[i])]
    /\ ~u_result.patched => ~u_result.ok /\ u_result.rec = UpdateRecord

\* vid 40 is carried by two VLANs and is not cached: nothing was sent
C26_Witness ==
  /\ v_pc = "updated"
  /\ u_call.interface_id = Some(11)
  /\ u_call.mode = "tagged"
  /\ u_call.native_vlan_vid = Some(10)
  /\ u_call.tagged_vlan_vids = <<40>>
  /\ u_call.net = "ok"
  /\ ~u_call.use_cache
  /\ ~u_result.patched
  /\ u_result.rec = UpdateRecord

\* C27: a mismatch whose inventory interface id is missing is skipped by the write-back
\* loop: the iteration only records the skip, with no write, no cache invalidation and
\* no verification read, the inventory, the cache, the update count and the outcome
\* stay as they are, and the loop goes on to the next mismatch of the pass if there is one
C27_SkipIsFrameOnly ==
  [][(pc = "apply" /\ mismatches[m_i].netbox_interface_id = None) =>
       /\ log' = Append(log, Ev("skip", sw.name, m_i))
       /\ UNCHANGED <<nb_ifaces, nb_vlans, files, applied, outcome, mismatches>>
       /\ IF m_i < Len(mismatches)
          THEN pc' = "apply" /\ m_i' = m_i + 1 /\ sw' = sw
          ELSE pc' # "apply"]_vars

\* a mismatch without interface id was skipped and a later mismatch of the same pass
\* was written, the skip counting for nothing
C27_Witness ==
  \E i, j \in DOMAIN log :
    /\ LastLookup < i /\ i < j
    /\ log[i].op = "skip"
    /\ log[j].op = "verify_ok"
    /\ applied = PassVerifications
    /\ applied = 1

\* the set(k) calls among the first n that no later delete(k) among them follows
LiveSets(n, k) ==
  {i \in 1..n :
     /\ c_hist[i].op = "set" /\ c_hist[i].key = k
     /\ \A j \in (i + 1)..n : ~(c_hist[j].op = "delete" /\ c_hist[j].key = k)}

\* the value of the latest of them, None if there is none
LatestSet(n, k) ==
  IF LiveSets(n, k) = {} THEN <<>>
  ELSE <<c_hist[CHOOSE i \in LiveSets(n, k) : \A j \in LiveSets(n, k) : j <= i].data>>

\* C28: over any sequence of set/get/delete: the directory holds for each key the value
\* of the latest set not followed by a delete, whatever the use_cache flag was at the
\* set; get returns None when use_cache is false and that value (or None) when it is
\* true; delete returns true exactly when the key had an entry, and touches no other key
C28_CacheIsLatestSet ==
  /\ \A k \in CacheKeys :
       /\ k \in DOMAIN c_files <=> LatestSet(Len(c_hist), k) # <<>>
       /\ k \in DOMAIN c_files => <<c_files[k]>> = LatestSet(Len(c_hist), k)
  /\ \A i \in DOMAIN c_hist :
       /\ c_hist[i].op = "get" =>
            c_hist[i].ret = IF c_hist[i].use_cache THEN LatestSet(i - 1, c_hist[i].key)
                            ELSE <<>>
       /\ c_hist[i].op = "delete" =>
            (c_hist[i].deleted <=> LatestSet(i - 1, c_hist[i].key) # <<>>)

\* a value set while use_cache was false is returned by a later get with use_cache true,
\* after another key was set and deleted in between
C28_Witness ==
  /\ Len(c_hist) = 4
  /\ c_hist[1].op = "set" /\ ~c_hist[1].use_cache
  /\ c_hist[2].op = "set" /\ c_hist[2].key # c_hist[1].key
  /\ c_hist[3].op = "delete" /\ c_hist[3].key = c_hist[2].key /\ c_hist[3].deleted
  /\ c_hist[4].op = "get" /\ c_hist[4].key = c_hist[1].key /\ c_hist[4].use_cache
  /\ c_hist[4].ret = <<c_hist[1].data>>

\* a read timeout or a connection error
RetryErrors == {"ReadTimeout", "ConnectionError", "ConnectTimeout"}

\* C29: _get makes at most max_retries requests: a request follows another only after
\* a read timeout or connection error; it returns the first successful response,
\* raises the error of the last attempt once max_retries attempts have failed, raises
\* any other error at once, never returns without a result, and waits only between
\* two attempts, never after the final one
C29_BoundedRetries ==
  LET n == Len(g_requests)
  IN /\ n <= g_max_retries
     /\ \A i \in 1..(n - 1) : g_requests[i].outcome \in RetryErrors
     /\ Len(g_waits) <= n
     /\ \A i \in DOMAIN g_waits : i < g_max_retries /\ g_waits[i] = 2 ^ (i - 1)
     /\ g_pc \in {"request", "sleep"} => n < g_max_retries /\ g_result = NoResponse
     /\ g_pc = "sleep" => g_requests[n].outcome \in RetryErrors
     /\ g_pc = "done" =>
          /\ n >= 1
          /\ Len(g_waits) = n - 1
          /\ g_result.kind \in {"json", "raised"}
          /\ g_result.kind = "json" <=> g_requests[n].outcome = "ok"
          /\ g_result.kind = "raised" =>
               /\ g_result.err = g_requests[n].outcome
               /\ g_result.err \in RetryErrors => n = g_max_retries

\* three attempts failed with errors that are retried: the last one is raised after
\* waits of 1 and 2 seconds
C29_Witness ==
  /\ g_pc = "done"
  /\ g_max_retries = 3
  /\ Len(g_requests) = 3
  /\ g_requests[1].outcome = "ReadTimeout"
  /\ g_requests[2].outcome = "ConnectTimeout"
  /\ g_result = [kind |-> "raised", err |-> "ConnectionError"]
  /\ g_waits = <<1, 2>>

====
